---- MODULE Spec2Model ----
(***************************************************************************)
(* Voice-Audit backend: the intent-extraction pipeline (analyzeText and    *)
(* its date safety layer), the keyword fallback classifier and the Gmail   *)
(* signature enforcement of sendEmail.                                     *)
(*                                                                         *)
(* Text is modelled by TLA+ strings (TLC evaluates Len, SubSeq and \o on   *)
(* them).  A JavaScript Date is its time value in minutes since            *)
(* 1970-01-01T00:00Z; the server's time zone is a fixed offset in minutes  *)
(* east of UTC.  A JavaScript value that may be undefined is a record      *)
(* [type |-> "undefined"] or [type |-> "string", val |-> s].               *)
(***************************************************************************)
EXTENDS Integers, Sequences, FiniteSets, TLC

VARIABLES
    clock,      \* the wall clock, minutes since the epoch (UTC)
    tz,         \* the server's time-zone offset, minutes east of UTC
    ticks,      \* how often the clock advanced
    dateIn,     \* validateAndFixDate: its dateStr argument
    dateNow,    \* validateAndFixDate: the two clock readings it took
    dateOut,    \* validateAndFixDate: the value it returned
    datePc,     \* validateAndFixDate: "idle" | "ready" | "yearRead" | "returned"
    apiKey,     \* process.env.GEMINI_API_KEY
    text,       \* analyzeText: the command text
    pc,         \* analyzeText: "idle" | "start" | "generating" | "validating" |
                \*   "returned" | "threw"
    anchor,     \* analyzeText: the date values of lines 28-32, embedded in the prompt
    genCalls,   \* how many times model.generateContent was called
    genResult,  \* what the generation call gave
    parsed,     \* analyzeText: the decoded response, corrected in place
    idx,        \* analyzeText: 0 before the top-level dates are validated, then the
                \*   index of the next element of parsed.actions
    dateReads,  \* the clock readings the date validation of this request took
    caught,     \* the message of the error the catch of line 248 caught, or ""
    ret,        \* the value analyzeText resolved with
    thrown,     \* the message of the error analyzeText rejected with, or ""
    mailPc,     \* sendEmail: "idle" | "start" | "auth" | "profile" | "sending" |
                \*   "returned" | "threw"
    mailData,   \* sendEmail: its data argument
    profile,    \* the profile getUserProfile gives for the user
    extCalls,   \* sendEmail: the external calls made so far, in order
    senderName, \* sendEmail: the name chosen for the signature
    sent,       \* sendEmail: the message handed to gmail.users.messages.send
    mailThrown, \* the message of the error sendEmail rejected with, or ""
    taskPc,     \* createTask: "idle" | "start" | "auth" | "listing" | "inserting" |
                \*   "returned" | "threw"
    taskData,   \* createTask: its data argument
    taskCalls,  \* createTask: the external calls made so far, in order
    taskListId, \* createTask: what getTaskListId resolved with, or ""
    taskNow,    \* createTask: the clock readings parseDate took
    task,       \* createTask: the request body handed to tasks.tasks.insert
    taskFailed, \* createTask: the external calls that rejected
    taskThrown, \* the message of the error createTask rejected with, or ""
    envelope,   \* the dispatcher: the actions of the envelope, in their order
    dIdx,       \* the dispatcher: the index of the action under dispatch
    dPc,        \* the dispatcher: "idle" | "next" | "awaiting" | "done"
    results,    \* the dispatcher: the results collected so far, in order
    reqBody,    \* POST /test: the text member of the request body
    routePc,    \* POST /test: "idle" | "received" | "awaiting" | "responded"
    analyzeCalls, \* POST /test: how many times the handler called analyzeText
    response,   \* POST /test: the response sent
    apiFn,      \* api.service: the function called, or ""
    apiPc,      \* api.service: "idle" | "start" | "fetching" | "settled"
    apiResp,    \* api.service: the Response fetch resolved with
    parses,     \* api.service: the outcomes of the parseJsonResponse calls, in order
    apiOut,     \* api.service: how the function called settled
    userName,   \* gemini.service.ts analyzeText: its userName argument
    isProcessing,      \* ChatPage: the isProcessing state, as last rendered
    isGoogleConnected, \* ChatPage: the isGoogleConnected state
    currentChatId,     \* ChatPage: the currentChatId state, undefined for null
    effectEnv,  \* ChatPage: the state the closure of the effect of line 233 holds
    pending,    \* ChatPage: the processText requests in flight, in sending order
    submits,    \* ChatPage: how many texts were submitted so far
    chats,      \* ChatPage: how many chats createChat created
    saved,      \* ChatPage: the messages handed to saveMessage, in order
    settled     \* ChatPage: the request that settled last, and what was done for it

dateVars == <<dateIn, dateNow, dateOut, datePc>>

mailVars == <<mailPc, mailData, profile, extCalls, senderName, sent, mailThrown>>

analyzeVars ==
    <<apiKey, text, pc, anchor, genCalls, genResult, parsed, idx, dateReads, caught,
      ret, thrown>>

taskVars ==
    <<taskPc, taskData, taskCalls, taskListId, taskNow, task, taskFailed, taskThrown>>

dispatchVars == <<envelope, dIdx, dPc, results>>

routeVars == <<reqBody, routePc, analyzeCalls, response>>

apiVars == <<apiFn, apiPc, apiResp, parses, apiOut>>

signVars == <<userName>>

chatVars ==
    <<isProcessing, isGoogleConnected, currentChatId, effectEnv, pending, submits, chats,
      saved, settled>>

\* The variables of the dispatch services, of the dispatcher, of the route, of
\* the frontend's api.service, of the analyzeText of gemini.service.ts and of
\* the frontend's ChatPage.
serviceVars ==
    <<mailVars, taskVars, dispatchVars, routeVars, apiVars, signVars, chatVars>>

vars == <<clock, tz, ticks, dateVars, analyzeVars, serviceVars>>

(***************************** JavaScript values ***************************)

Undefined == [type |-> "undefined"]

Str(s) == [type |-> "string", val |-> s]

IsString(v) == v.type = "string"

Arr(seq) == [type |-> "array", val |-> seq]

\* JavaScript truthiness: undefined, null and "" are falsy; every array and every
\* object is truthy, the empty array too.
Truthy(v) ==
    CASE v.type = "undefined" -> FALSE
      [] v.type = "null"      -> FALSE
      [] v.type = "string"    -> v.val # ""
      [] OTHER                -> TRUE

\* x === "literal"
StrictEq(v, lit) == IsString(v) /\ v.val = lit

\* A GeminiResponse (lines 5-19).  time, duration, location and priority are left
\* out: no code of the services reads or writes them.
EmptyObject ==
    [type |-> "object", action |-> Undefined, actions |-> Undefined,
     title |-> Undefined, description |-> Undefined, date |-> Undefined,
     dueDate |-> Undefined, recipient |-> Undefined, subject |-> Undefined,
     body |-> Undefined]

(********************************* strings *********************************)

Char(s, i) == SubSeq(s, i, i)

DigitChars == "0123456789"

IsDigit(c) == \E i \in 1..10 : Char(DigitChars, i) = c

DigitVal(c) == (CHOOSE i \in 1..10 : Char(DigitChars, i) = c) - 1

AllDigits(s) == \A i \in 1..Len(s) : IsDigit(Char(s, i))

RECURSIVE ToInt(_)
ToInt(s) ==
    IF Len(s) = 0 THEN 0
    ELSE 10 * ToInt(SubSeq(s, 1, Len(s) - 1)) + DigitVal(Char(s, Len(s)))

DigitStr(n) == Char(DigitChars, n + 1)

Pad2(n) == DigitStr(n \div 10) \o DigitStr(n % 10)

Pad4(n) == Pad2(n \div 100) \o Pad2(n % 100)

UpperChars == "ABCDEFGHIJKLMNOPQRSTUVWXYZ"
LowerChars == "abcdefghijklmnopqrstuvwxyz"

LowerChar(c) ==
    IF \E i \in 1..26 : Char(UpperChars, i) = c
      THEN Char(LowerChars, CHOOSE i \in 1..26 : Char(UpperChars, i) = c)
      ELSE c

\* The characters lo..hi of s in lower case (halving keeps the evaluation shallow).
RECURSIVE LowerRange(_, _, _)
LowerRange(s, lo, hi) ==
    IF lo > hi THEN ""
    ELSE IF lo = hi THEN LowerChar(Char(s, lo))
    ELSE LET mid == (lo + hi) \div 2
         IN  LowerRange(s, lo, mid) \o LowerRange(s, mid + 1, hi)

\* String.prototype.toLowerCase (ASCII)
ToLowerCase(s) == LowerRange(s, 1, Len(s))

\* The positions at which k occurs in s.
Occurrences(s, k) ==
    { i \in 1..(Len(s) - Len(k) + 1) : SubSeq(s, i, i + Len(k) - 1) = k }

\* String.prototype.includes
Includes(s, k) == Occurrences(s, k) # {}

\* String.prototype.substring(0, n)
Substring0(s, n) == SubSeq(s, 1, IF Len(s) < n THEN Len(s) ELSE n)

IsSpace(c) == c \in { " ", "\n", "\t", "\r" }

\* String.prototype.trim
Trim(s) ==
    LET keep == { i \in 1..Len(s) : ~IsSpace(Char(s, i)) }
    IN  IF keep = {} THEN ""
        ELSE SubSeq(s, CHOOSE i \in keep : \A j \in keep : i <= j,
                       CHOOSE i \in keep : \A j \in keep : i >= j)

\* s.replace(/k/g, ""), k a literal: every occurrence, left to right, is removed.
RECURSIVE RemoveAll(_, _)
RemoveAll(s, k) ==
    LET occ == Occurrences(s, k)
        i   == CHOOSE x \in occ : \A y \in occ : x <= y
    IN  IF occ = {} THEN s
        ELSE SubSeq(s, 1, i - 1) \o RemoveAll(SubSeq(s, i + Len(k), Len(s)), k)

(***************************** calendar arithmetic *************************)

IsLeap(y) == (y % 4 = 0 /\ y % 100 # 0) \/ y % 400 = 0

DaysInMonth(y, m) ==
    IF m = 2 THEN (IF IsLeap(y) THEN 29 ELSE 28)
    ELSE IF m \in {4, 6, 9, 11} THEN 30 ELSE 31

\* ECMAScript MakeDay: the day number of (y, m, 1) plus d - 1, so a day past the
\* end of the month runs over into the next month.
DaysFromCivil(y, m, d) ==
    LET yy  == IF m <= 2 THEN y - 1 ELSE y
        era == yy \div 400
        yoe == yy - era * 400
        mp  == IF m > 2 THEN m - 3 ELSE m + 9
        doy == (153 * mp + 2) \div 5
        doe == yoe * 365 + yoe \div 4 - yoe \div 100 + doy
    IN  era * 146097 + doe - 719468 + (d - 1)

\* Year, month and day of a day number.
CivilFromDays(days) ==
    LET z   == days + 719468
        era == z \div 146097
        doe == z - era * 146097
        yoe == (doe - doe \div 1460 + doe \div 36524 - doe \div 146096) \div 365
        doy == doe - (365 * yoe + yoe \div 4 - yoe \div 100)
        mp  == (5 * doy + 2) \div 153
        d   == doy - (153 * mp + 2) \div 5 + 1
        m   == IF mp < 10 THEN mp + 3 ELSE mp - 9
        y   == yoe + era * 400 + (IF m <= 2 THEN 1 ELSE 0)
    IN  [y |-> y, m |-> m, d |-> d]

\* Date.UTC(y, m, d, hh, mi) in minutes.
UtcTime(y, m, d, hh, mi) == DaysFromCivil(y, m, d) * 1440 + hh * 60 + mi

\* The local calendar day number of a time value in a zone.
LocalDay(t, zone) == (t + zone) \div 1440

\* Date.prototype.getFullYear: the year in local time.
GetFullYear(t, zone) == CivilFromDays(LocalDay(t, zone)).y

\* Date.prototype.setFullYear(y): local month, day and time of day are kept and the
\* day is rebuilt with MakeDay.
SetFullYear(t, zone, y) ==
    LET local == t + zone
        c     == CivilFromDays(local \div 1440)
    IN  DaysFromCivil(y, c.m, c.d) * 1440 + (local % 1440) - zone

\* Date.prototype.setHours(0, 0, 0, 0): local midnight of the same local day.
StartOfLocalDay(t, zone) == LocalDay(t, zone) * 1440 - zone

IsoDateOf(y, m, d) == Pad4(y) \o "-" \o Pad2(m) \o "-" \o Pad2(d)

\* toISOString().split("T")[0]: the UTC calendar date, YYYY-MM-DD.
IsoDate(t) ==
    LET c == CivilFromDays(t \div 1440)
    IN  IsoDateOf(c.y, c.m, c.d)

\* new Date(string), for the forms the model feeds it: the ISO date-only form is
\* UTC midnight, the ISO date-time form without a zone is local time, and a text
\* without digits is an Invalid Date.
ParseDate(s, zone) ==
    LET isDate == /\ Len(s) >= 10
                  /\ AllDigits(SubSeq(s, 1, 4))
                  /\ Char(s, 5) = "-"
                  /\ AllDigits(SubSeq(s, 6, 7))
                  /\ Char(s, 8) = "-"
                  /\ AllDigits(SubSeq(s, 9, 10))
        y  == ToInt(SubSeq(s, 1, 4))
        m  == ToInt(SubSeq(s, 6, 7))
        d  == ToInt(SubSeq(s, 9, 10))
        okDay == m \in 1..12 /\ d \in 1..DaysInMonth(y, m)
        isTime == /\ Len(s) = 16
                  /\ Char(s, 11) = "T"
                  /\ AllDigits(SubSeq(s, 12, 13))
                  /\ Char(s, 14) = ":"
                  /\ AllDigits(SubSeq(s, 15, 16))
        hh == ToInt(SubSeq(s, 12, 13))
        mi == ToInt(SubSeq(s, 15, 16))
    IN  IF isDate /\ okDay /\ Len(s) = 10
          THEN [valid |-> TRUE, time |-> UtcTime(y, m, d, 0, 0)]
        ELSE IF isDate /\ okDay /\ isTime /\ hh \in 0..23 /\ mi \in 0..59
          THEN [valid |-> TRUE, time |-> UtcTime(y, m, d, hh, mi) - zone]
        ELSE [valid |-> FALSE, time |-> 0]

(************************ validateAndFixDate (DateResolver) ****************)

\* Lines 185-199: the year is in the past.  The year is replaced by currentYear and,
\* when the result is before local midnight of today, by currentYear + 1.
FixPastYear(time, currentYear, tToday, zone) ==
    LET fixed == SetFullYear(time, zone, currentYear)
        today == StartOfLocalDay(tToday, zone)
    IN  IF fixed < today
          THEN Str(IsoDate(SetFullYear(fixed, zone, currentYear + 1)))
          ELSE Str(IsoDate(fixed))

\* A variant that keeps the string of an Invalid Date.
InvalidDateResult_Kept(dateStr) == dateStr

\* What validateAndFixDate returns for an Invalid Date (lines 179-182).
InvalidDateResult(dateStr) == Undefined

\* The closure validateAndFixDate of analyzeText.  tYear is the clock reading of
\* line 176 and tToday that of line 191.  Its catch branch (lines 203-206) is not
\* reached: toISOString throws only for an Invalid Date, which line 179 returned on.
validateAndFixDate(dateStr, tYear, tToday, zone) ==
    IF ~Truthy(dateStr) THEN dateStr
    ELSE LET parsedDate  == ParseDate(dateStr.val, zone)
             currentYear == GetFullYear(tYear, zone)
         IN  IF ~parsedDate.valid THEN InvalidDateResult(dateStr)
             ELSE IF GetFullYear(parsedDate.time, zone) < currentYear
               THEN FixPastYear(parsedDate.time, currentYear, tToday, zone)
             ELSE dateStr

(****************************** analyzeText ********************************)

\* Lines 28-32: the date values computed from now and embedded in the prompt.
\* todayDate is the UTC date (toISOString); year, month and day are local.
DateAnchor(now, zone) ==
    LET c == CivilFromDays(LocalDay(now, zone))
    IN  [todayDate |-> IsoDate(now), currentYear |-> c.y,
         currentMonth |-> c.m, currentDay |-> c.d]

NoAnchor == [todayDate |-> "", currentYear |-> 0, currentMonth |-> 0, currentDay |-> 0]

\* A variant of the key test without the trim.
ApiKeyMissing_NoTrim(key) == ~Truthy(key)

\* Line 36: !apiKey || apiKey.trim() === ""
ApiKeyMissing(key) == IF Truthy(key) THEN Trim(key.val) = "" ELSE TRUE

\* The code-fence marker, three backquotes.  A TLA+ string cannot hold a backquote,
\* so every text of the model writes the backquote as "~".
Fence == "~~~"

\* Lines 149-152: the code-fence markers are removed and the text is trimmed.
CleanResponse(responseText) ==
    Trim(RemoveAll(RemoveAll(responseText, Fence \o "json"), Fence))

\* A variant of the extraction that never finds the JSON span.
JsonSpan_NoMatch(cleanedText) == cleanedText

\* A variant of the extraction that ends the span at the first "}" after the "{".
JsonSpan_Shortest(cleanedText) ==
    LET opens  == Occurrences(cleanedText, "{")
        first  == CHOOSE i \in opens : \A j \in opens : i <= j
        closes == { i \in Occurrences(cleanedText, "}") : i > first }
        last   == CHOOSE i \in closes : \A j \in closes : i <= j
    IN  IF opens # {} /\ closes # {}
          THEN SubSeq(cleanedText, first, last)
          ELSE cleanedText

\* Lines 154-157: cleanedText.match(/\{[\s\S]*\}/), the span from the first "{" to
\* the last "}" after it; without a match the cleaned text is kept.
JsonSpan(cleanedText) ==
    LET opens  == Occurrences(cleanedText, "{")
        closes == Occurrences(cleanedText, "}")
        first  == CHOOSE i \in opens : \A j \in opens : i <= j
        last   == CHOOSE i \in closes : \A j \in closes : i >= j
    IN  IF opens # {} /\ closes # {} /\ first < last
          THEN SubSeq(cleanedText, first, last)
          ELSE cleanedText

RECURSIVE JsonEscape(_)
\* The escapes of a JSON string, for the one character of the model's texts that
\* needs one: a line feed is written as a backslash and an n.
JsonEscape(s) ==
    LET at == Occurrences(s, "\n")
        i  == CHOOSE x \in at : \A y \in at : x <= y
    IN  IF at = {} THEN s
        ELSE SubSeq(s, 1, i - 1) \o "\\n" \o JsonEscape(SubSeq(s, i + 1, Len(s)))

\* JSON.stringify of a string.
Quote(s) == "\"" \o JsonEscape(s) \o "\""

FieldNames ==
    << "action", "title", "description", "date", "dueDate", "recipient", "subject",
       "body" >>

FieldOf(obj, name) ==
    CASE name = "action"      -> obj.action
      [] name = "title"       -> obj.title
      [] name = "description" -> obj.description
      [] name = "date"        -> obj.date
      [] name = "dueDate"     -> obj.dueDate
      [] name = "recipient"   -> obj.recipient
      [] name = "subject"     -> obj.subject
      [] name = "body"        -> obj.body

\* The members "name":"value" of the string fields of an object from field i on,
\* each preceded by a comma.
RECURSIVE Members(_, _)
Members(obj, i) ==
    IF i > Len(FieldNames) THEN ""
    ELSE LET v == FieldOf(obj, FieldNames[i])
         IN  (IF IsString(v) THEN "," \o Quote(FieldNames[i]) \o ":" \o Quote(v.val)
              ELSE "")
             \o Members(obj, i + 1)

\* Drops the leading comma.
Braced(members) ==
    "{" \o (IF members = "" THEN "" ELSE SubSeq(members, 2, Len(members))) \o "}"

\* The JSON text of an object without actions.
StringifyFlat(obj) == Braced(Members(obj, 1))

RECURSIVE Elements(_, _)
Elements(seq, i) ==
    IF i > Len(seq) THEN ""
    ELSE "," \o StringifyFlat(seq[i]) \o Elements(seq, i + 1)

\* The JSON text of a decoded value: what the generation backend writes for it.
Stringify(v) ==
    CASE v.type = "null"   -> "null"
      [] v.type = "number" -> "42"
      [] v.type = "object" ->
           Braced(Members(v, 1)
                  \o (CASE v.actions.type = "array" ->
                             LET es == Elements(v.actions.val, 1)
                             IN  "," \o Quote("actions") \o ":["
                                 \o (IF es = "" THEN "" ELSE SubSeq(es, 2, Len(es)))
                                 \o "]"
                        [] v.actions.type = "string" ->
                             "," \o Quote("actions") \o ":" \o Quote(v.actions.val)
                        [] OTHER -> ""))

\* A variant of the fallback that tests the task keywords first.
FallbackAction_TaskFirst(lowerText) ==
    IF Includes(lowerText, "task") \/ Includes(lowerText, "todo") THEN "task"
    ELSE IF Includes(lowerText, "meet") \/ Includes(lowerText, "schedule") THEN "calendar"
    ELSE IF Includes(lowerText, "email") \/ Includes(lowerText, "mail") THEN "email"
    ELSE "unknown"

\* The fallback of lines 251-267.
FallbackAction(lowerText) ==
    IF Includes(lowerText, "meet") \/ Includes(lowerText, "schedule") THEN "calendar"
    ELSE IF Includes(lowerText, "task") \/ Includes(lowerText, "todo") THEN "task"
    ELSE IF Includes(lowerText, "email") \/ Includes(lowerText, "mail") THEN "email"
    ELSE "unknown"

FallbackDescription == "AI parsing failed. Please refine the input."

\* A variant of the fallback record whose title is the whole text.
FallbackRecord_WholeTitle(t) ==
    [EmptyObject EXCEPT !.action = Str(FallbackAction(ToLowerCase(t))),
                        !.title = Str(t),
                        !.description = Str(FallbackDescription)]

FallbackRecord(t) ==
    [EmptyObject EXCEPT !.action = Str(FallbackAction(ToLowerCase(t))),
                        !.title = Str(Substring0(t, 50)),
                        !.description = Str(FallbackDescription)]

\* A variant of the date validation that does not look at the kind of the record.
ValidateDates_AnyKind(rec, now, zone) ==
    LET r1 == IF Truthy(rec.date)
                THEN [rec EXCEPT !.date = validateAndFixDate(rec.date, now, now, zone)]
                ELSE rec
    IN  IF Truthy(r1.dueDate)
          THEN [r1 EXCEPT !.dueDate = validateAndFixDate(r1.dueDate, now, now, zone)]
          ELSE r1

\* Lines 210-219 for the top-level record, lines 224-229 for an element of actions:
\* a calendar record's date and a task record's dueDate are validated when truthy.
ValidateDates(rec, now, zone) ==
    LET r1 == IF StrictEq(rec.action, "calendar") /\ Truthy(rec.date)
                THEN [rec EXCEPT !.date = validateAndFixDate(rec.date, now, now, zone)]
                ELSE rec
    IN  IF StrictEq(r1.action, "task") /\ Truthy(r1.dueDate)
          THEN [r1 EXCEPT !.dueDate = validateAndFixDate(r1.dueDate, now, now, zone)]
          ELSE r1

\* Line 222: parsed.actions && Array.isArray(parsed.actions)
HasActionList(obj) == obj.actions.type = "array"

\* A variant of the validation that accepts every decoded structure.
MissingAction_Never(obj) == FALSE

\* Line 242: !parsed.action && !parsed.actions
MissingAction(obj) == ~Truthy(obj.action) /\ ~Truthy(obj.actions)

(******************* analyzeText of gemini.service.ts **********************)

RECURSIVE ReplaceAllIgnoreCase(_, _, _)
\* s.replace(/k/gi, r), k a literal in lower case and r without "$": every
\* occurrence of k, in any letter case, is replaced, left to right.
ReplaceAllIgnoreCase(s, k, r) ==
    LET occ == Occurrences(ToLowerCase(s), k)
        i   == CHOOSE x \in occ : \A y \in occ : x <= y
    IN  IF occ = {} THEN s
        ELSE SubSeq(s, 1, i - 1) \o r
               \o ReplaceAllIgnoreCase(SubSeq(s, i + Len(k), Len(s)), k, r)

\* Line 101: userName?.trim() || "User"
SignerOf(name) == IF Trim(name) = "" THEN "User" ELSE Trim(name)

\* Lines 103-110: "[Your Name]" is replaced by the sender name, and the sign-off
\* block is appended to a body that does not mention the sender name.
FixedBody(body, name) ==
    LET replaced == ReplaceAllIgnoreCase(body, "[your name]", SignerOf(name))
    IN  IF Includes(ToLowerCase(replaced), ToLowerCase(SignerOf(name)))
          THEN replaced
          ELSE replaced \o "\n\nBest regards,\n" \o SignerOf(name)

\* Lines 99-112, EMAIL SIGNATURE FIX: applied to a top-level email record with a
\* truthy body.
SignatureFix(obj, name) ==
    IF StrictEq(obj.action, "email") /\ Truthy(obj.body)
      THEN [obj EXCEPT !.body = Str(FixedBody(obj.body.val, name))]
      ELSE obj

(******************************** sendEmail ********************************)

\* The closing phrases of signaturePattern (googleGmail.service.ts line 11).
SignaturePhrases ==
    { "best regards,", "regards,", "sincerely,", "thanks,", "thank you,", "cheers,",
      "warm regards,", "kind regards," }

\* The positions at which signaturePattern can match: a phrase, in any letter case
\* (flag i), followed by the rest of the body ([\s\S]*$).
SignatureMatches(body) ==
    UNION { Occurrences(ToLowerCase(body), phrase) : phrase \in SignaturePhrases }

\* A variant of removeAISignature that cuts at the last closing phrase.
removeAISignature_Last(body) ==
    LET at   == SignatureMatches(body)
        last == CHOOSE i \in at : \A j \in at : i >= j
    IN  Trim(IF at = {} THEN body ELSE SubSeq(body, 1, last - 1))

\* A variant of removeAISignature that leaves the sign-off in the body.
removeAISignature_Kept(body) == Trim(body)

\* A variant of removeAISignature without the trim.
removeAISignature_NoTrim(body) ==
    LET at    == SignatureMatches(body)
        first == CHOOSE i \in at : \A j \in at : i <= j
    IN  IF at = {} THEN body ELSE SubSeq(body, 1, first - 1)

\* removeAISignature: body.replace(signaturePattern, "").trim().  The pattern is not
\* global: the leftmost match, which runs to the end of the body, is removed.
removeAISignature(body) ==
    LET at    == SignatureMatches(body)
        first == CHOOSE i \in at : \A j \in at : i <= j
    IN  Trim(IF at = {} THEN body ELSE SubSeq(body, 1, first - 1))

\* appendSignature
appendSignature(body, name) == body \o "\n\nBest regards,\n" \o name

\* email.split("@")[0]
LocalPart(email) ==
    LET at == Occurrences(email, "@")
    IN  IF at = {} THEN email
        ELSE SubSeq(email, 1, (CHOOSE i \in at : \A j \in at : i <= j) - 1)

\* A variant of the sender name that falls back only for a missing name.
SenderNameOf_NoBlankTest(p) ==
    IF ~Truthy(p.name) THEN LocalPart(p.email) ELSE p.name.val

\* Lines 79-84: the profile name, or the local part of the address when the name
\* is missing or blank.
SenderNameOf(p) ==
    IF ~Truthy(p.name) THEN LocalPart(p.email)
    ELSE IF Trim(p.name.val) = "" THEN LocalPart(p.email)
    ELSE p.name.val

\* A variant of the validation of sendEmail that does not test the recipient.
MailValidationError_NoRecipient(data) ==
    IF ~StrictEq(data.action, "email") THEN "Invalid action type for Gmail service"
    ELSE IF ~Truthy(data.subject) THEN "Email subject is required"
    ELSE IF ~Truthy(data.body) THEN "Email body is required"
    ELSE ""

\* Lines 54-68: the message of the validation error of a record, or "" for a
\* record that passes.
MailValidationError(data) ==
    IF ~StrictEq(data.action, "email") THEN "Invalid action type for Gmail service"
    ELSE IF ~Truthy(data.recipient) THEN "Email recipient is required"
    ELSE IF ~Truthy(data.subject) THEN "Email subject is required"
    ELSE IF ~Truthy(data.body) THEN "Email body is required"
    ELSE ""

(******************************** createTask *******************************)

\* setHours(23, 59, 59, 0): the last minute of the same local day; the instant lies
\* 59 seconds into that minute.
EndOfLocalDay(t, zone) == StartOfLocalDay(t, zone) + 1439

\* toISOString of an instant 59 seconds into the minute t.
ToISOString(t) ==
    IsoDate(t) \o "T" \o Pad2((t % 1440) \div 60) \o ":" \o Pad2(t % 60) \o ":59.000Z"

\* parseDate (googleTasks.service.ts lines 10-38); now is the clock reading of
\* line 11.
parseDate(dateString, now, zone) ==
    LET lowerDate  == Trim(ToLowerCase(dateString))
        parsedDate == ParseDate(dateString, zone)
        targetDate == IF lowerDate = "today" THEN EndOfLocalDay(now, zone)
                      ELSE IF lowerDate = "tomorrow" THEN EndOfLocalDay(now + 1440, zone)
                      ELSE IF parsedDate.valid THEN EndOfLocalDay(parsedDate.time, zone)
                      ELSE EndOfLocalDay(now, zone)
    IN  ToISOString(targetDate)

\* A variant of line 83 that gives a record without a dueDate the end of today.
TaskDue_Defaulted(dueDate, now, zone) ==
    IF Truthy(dueDate) THEN Str(parseDate(dueDate.val, now, zone))
    ELSE Str(ToISOString(EndOfLocalDay(now, zone)))

\* Line 83: data.dueDate ? parseDate(data.dueDate) : undefined
TaskDue(dueDate, now, zone) ==
    IF Truthy(dueDate) THEN Str(parseDate(dueDate.val, now, zone)) ELSE Undefined

\* Line 89: the notes member, present for a description that is not blank.
TaskNotes(description) ==
    IF ~Truthy(description) THEN Undefined
    ELSE IF Trim(description.val) = "" THEN Undefined
    ELSE Str(Trim(description.val))

\* Lines 87-92: the request body of the insert.
TaskBody(data, now, zone) ==
    [title |-> data.title, notes |-> TaskNotes(data.description),
     due |-> TaskDue(data.dueDate, now, zone), status |-> "needsAction"]

\* A variant of the validation of createTask that does not test the title.
TaskValidationError_NoTitle(data) ==
    IF ~StrictEq(data.action, "task") THEN "Invalid action type for tasks service"
    ELSE ""

\* Lines 70-76: the message of the validation error of a record, or "" for a
\* record that passes.
TaskValidationError(data) ==
    IF ~StrictEq(data.action, "task") THEN "Invalid action type for tasks service"
    ELSE IF ~Truthy(data.title) THEN "Task title is required"
    ELSE ""

\* A variant of getTaskListId without the fallback to the default list.
TaskListIdOf_NoDefault(outcome) == outcome.id

\* getTaskListId (lines 43-61): the id of the first list; a rejected call and a
\* response without lists both end in the catch, which resolves with "@default".
TaskListIdOf(outcome) ==
    IF outcome.kind = "lists" THEN outcome.id ELSE "@default"

(******************************* POST /test ********************************)

\* googleGmail.service.ts line 136:
\* !text || typeof text !== "string" || text.trim().length === 0
RouteRejectsText(body) ==
    IF ~IsString(body) THEN TRUE ELSE Trim(body.val) = ""

(******************** api.service.ts (the frontend) ************************)

RECURSIVE NumStr(_)
\* String(n) of a natural number.
NumStr(n) == IF n < 10 THEN DigitStr(n) ELSE NumStr(n \div 10) \o DigitStr(n % 10)

\* A JSON body of the backend: an object with success and, when present, message
\* and authUrl.
ApiStringify(v) ==
    "{\"success\":" \o (IF v.success THEN "true" ELSE "false")
      \o (IF v.message = Undefined THEN "" ELSE ",\"message\":" \o Quote(v.message.val))
      \o (IF v.authUrl = Undefined THEN "" ELSE ",\"authUrl\":" \o Quote(v.authUrl.val))
      \o "}"

ApiValues ==
    { [success |-> TRUE, message |-> Str("Task created"), authUrl |-> Undefined],
      [success |-> TRUE, message |-> Undefined,
       authUrl |-> Str("https://accounts.google.com/o/oauth2/v2/auth")],
      [success |-> FALSE, message |-> Str("Gemini API test failed"), authUrl |-> Undefined],
      [success |-> FALSE, message |-> Undefined, authUrl |-> Undefined] }

\* JSON.parse on the bodies of the model: the JSON text of a value decodes to that
\* value and every other text is a syntax error.
ApiJsonParse(body) ==
    IF \E v \in ApiValues : ApiStringify(v) = body
      THEN [ok |-> TRUE, value |-> CHOOSE v \in ApiValues : ApiStringify(v) = body]
      ELSE [ok |-> FALSE, value |-> Undefined]

IsJsonType_Truthy(contentType) == Truthy(contentType)

\* Line 39, negated: contentType && contentType.includes('application/json')
IsJsonType(contentType) ==
    IF Truthy(contentType) THEN Includes(contentType.val, "application/json") ELSE FALSE

\* Line 41: contentType && contentType.includes('text/html')
IsHtmlType(contentType) ==
    IF Truthy(contentType) THEN Includes(contentType.val, "text/html") ELSE FALSE

\* Lines 47-55.
HtmlMessage(res) ==
    "Backend returned HTML instead of JSON (" \o NumStr(res.status) \o " "
      \o res.statusText \o "). This usually means:\n"
      \o "1. The API endpoint doesn't exist (404)\n"
      \o "2. The backend URL is incorrect\n"
      \o "3. The backend server is not running\n\n"
      \o "Current API URL: " \o res.url \o "\n"
      \o "Please check your VITE_API_BASE_URL environment variable."

\* Lines 59-63.
UnexpectedMessage(res) ==
    LET ct == res.contentType
    IN  "Unexpected content type: " \o (IF Truthy(ct) THEN ct.val ELSE "unknown") \o ". "
          \o "Expected JSON but received "
          \o (IF Truthy(ct) THEN ct.val ELSE "unknown content") \o ". "
          \o "Status: " \o NumStr(res.status) \o " " \o res.statusText

\* The TypeError of reading a body that was read before.
BodyUsedMessage == "body stream already read"

\* parseJsonResponse (lines 35-78) on a Response whose body was not read yet: how
\* it settles, and the reads of the body it made.  After response.json() failed the
\* body is used, and response.text() of line 71 rejects with a TypeError, which
\* leaves the catch block in place of the error of lines 72-76.
parseJsonResponse(res) ==
    IF ~IsJsonType(res.contentType)
      THEN IF IsHtmlType(res.contentType)
             THEN [kind |-> "threw", message |-> HtmlMessage(res),
                   value |-> Undefined, reads |-> << "text" >>]
             ELSE [kind |-> "threw", message |-> UnexpectedMessage(res),
                   value |-> Undefined, reads |-> <<>>]
      ELSE IF ApiJsonParse(res.body).ok
             THEN [kind |-> "returned", message |-> "",
                   value |-> ApiJsonParse(res.body).value, reads |-> << "json" >>]
             ELSE [kind |-> "threw", message |-> BodyUsedMessage,
                   value |-> Undefined, reads |-> << "json", "text" >>]

Throw(m) == [kind |-> "threw", message |-> m, value |-> Undefined]

Return(v) == [kind |-> "returned", message |-> "", value |-> v]

\* errorData.message || fallback
MessageOr(errorData, fallback) ==
    IF Truthy(errorData.message) THEN errorData.message.val ELSE fallback

\* error.message.includes('Backend returned HTML') ||
\* error.message.includes('Unexpected content type')
IsContentTypeError(m) ==
    Includes(m, "Backend returned HTML") \/ Includes(m, "Unexpected content type")

\* processText (lines 99-113), getGoogleAuthUrl (133-151) and checkGoogleConnection
\* (209-223) once fetch resolved with a response and parseJsonResponse settled
\* with p.
AuthedSettle(fn, res, p) ==
    LET http == "HTTP error! status: " \o NumStr(res.status)
    IN  IF ~res.ok
          THEN IF p.kind = "returned" THEN Throw(MessageOr(p.value, http))
               ELSE IF IsContentTypeError(p.message) THEN Throw(p.message)
               ELSE Throw(IF p.message # "" THEN p.message ELSE http)
        ELSE IF p.kind = "threw" THEN Throw(p.message)
        ELSE IF fn # "getGoogleAuthUrl" THEN Return(p.value)
        ELSE IF Truthy(p.value.authUrl) THEN Return(p.value.authUrl)
        ELSE Throw("Invalid res: authUrl not found in res")

\* API_ENDPOINTS.HEALTH
HealthUrl == "/api/health"

\* Lines 166-171.
CannotConnectMessage ==
    "Cannot connect to backend server.\n\n"
      \o "The backend URL might be incorrect or the server is not running.\n"
      \o "Current API URL: " \o HealthUrl \o "\n"
      \o "Please check your VITE_API_BASE_URL environment variable."

\* Lines 179-186.
NetworkMessage ==
    "Cannot connect to backend server.\n\n"
      \o "Possible issues:\n"
      \o "1. Backend server is not running\n"
      \o "2. Backend URL is incorrect: " \o HealthUrl \o "\n"
      \o "3. CORS is blocking the request\n\n"
      \o "Please check your VITE_API_BASE_URL environment variable."

\* Lines 177-189: the outer catch of checkBackendHealth.
HealthCatch(m) ==
    IF Includes(m, "Failed to fetch") \/ Includes(m, "NetworkError")
      THEN Throw(NetworkMessage) ELSE Throw(m)

\* checkBackendHealth (lines 160-189) once fetch resolved with a response and
\* parseJsonResponse settled with p.
HealthSettle(res, p) ==
    IF ~res.ok
      THEN LET m == IF p.kind = "returned"
                      THEN MessageOr(p.value, "Backend is not responding")
                      ELSE p.message
           IN  IF IsContentTypeError(m) THEN HealthCatch(CannotConnectMessage)
               ELSE HealthCatch(m)
    ELSE IF p.kind = "threw" THEN HealthCatch(p.message)
    ELSE Return(p.value)

(******************************** the inputs *******************************)

\* How many years before the anchor year a date the model returns may lie.
YearsBack == 2

\* How often the clock may advance during one behaviour.
MaxTicks == 1

\* One advance of the clock, in minutes.
TickMinutes == 60

AnchorYear == 2025

\* The instants a request may start at: midday, the hours around midnight in which
\* the UTC date and a local date differ, and the last hour of the year.
Clocks ==
    { UtcTime(AnchorYear, 6, 10, 12, 0),
      UtcTime(AnchorYear, 6, 10, 2, 0),
      UtcTime(AnchorYear, 6, 9, 20, 0),
      UtcTime(AnchorYear, 12, 31, 23, 30) }

\* The instants an analyzeText request may start at.
AnalyzeClocks ==
    { UtcTime(AnchorYear, 6, 10, 12, 0), UtcTime(AnchorYear, 12, 31, 23, 30) }

\* The server's zone: New York (winter), UTC, India.
Zones == { -300, 0, 330 }

MonthDays ==
    { <<1, 1>>, <<1, 5>>, <<2, 29>>, <<6, 9>>, <<6, 10>>, <<6, 11>>,
      <<12, 25>>, <<12, 31>> }

\* Only days that exist: what new Date does with 02-29 of a common year is left
\* out of the model.
IsoDateInputs ==
    { IsoDateOf(ymd[1], ymd[2][1], ymd[2][2]) :
        ymd \in { x \in ((AnchorYear - YearsBack)..(AnchorYear + 1)) \X MonthDays :
                    x[2][2] <= DaysInMonth(x[1], x[2][1]) } }

\* Date strings a model may produce: ISO dates, ISO date-times, and text that is
\* no date.
DateStrings ==
    IsoDateInputs
      \cup { "2024-06-10T03:00", "2024-01-01T03:00", "2025-06-10T23:30", "2099-01-01" }
      \cup { "tomorrow", "next friday", "" }

DateValues == { Undefined } \cup { Str(s) : s \in DateStrings }

\* How many elements the actions list of a decoded response may have.
MaxActions == 2

ApiKeys == { Undefined, Str(""), Str("   "), Str("AIza-test-key") }

\* Command texts of analyzeText requests.
AnalyzeTexts ==
    { "Schedule a task reminder", "email Raj about the budget",
      "what is the weather" }

\* How many words a generated command text has at most.
MaxWords == 2

\* Words of command texts: the six keywords, in several cases and inside longer
\* words, and two words that hold no keyword.
CalendarWords == { "Meeting", "schedule" }
TaskWords == { "TASK", "todos" }
EmailWords == { "Email", "mailbox" }
OtherWords == { "hello", "remind" }
Words == CalendarWords \cup TaskWords \cup EmailWords \cup OtherWords

WordLists == UNION { [1..n -> Words] : n \in 1..MaxWords }

\* The words of a list from the i-th on, each preceded by a space.
RECURSIVE Spaced(_, _)
Spaced(ws, i) == IF i > Len(ws) THEN "" ELSE " " \o ws[i] \o Spaced(ws, i + 1)

Sentence(ws) == ws[1] \o Spaced(ws, 2)

LongText == "please put it on the list for the whole team before the review"

\* Command texts of requests whose generation call fails.
FallbackTexts ==
    { Sentence(ws) : ws \in WordLists } \cup { "Schedule a task reminder", LongText }

DocDates ==
    { Undefined, Str(""), Str("tomorrow"), Str("2024-01-05"), Str("2024-06-10"),
      Str("2025-12-25") }

CalendarDoc(d) ==
    [EmptyObject EXCEPT !.action = Str("calendar"), !.title = Str("Standup"),
                        !.date = d]

TaskDoc(d) ==
    [EmptyObject EXCEPT !.action = Str("task"), !.title = Str("Buy milk"),
                        !.dueDate = d]

EmailDoc ==
    [EmptyObject EXCEPT !.action = Str("email"), !.recipient = Str("raj@example.com"),
                        !.subject = Str("Budget"),
                        !.body = Str("Let us sync next week."),
                        !.date = Str("2024-01-05")]

\* Decoded responses with a top-level action only: the kinds of the prompt, an
\* action outside the closed set, an empty and a missing action.
SingleDocs ==
    { CalendarDoc(d) : d \in DocDates } \cup { TaskDoc(d) : d \in DocDates }
      \cup { EmailDoc,
             [EmptyObject EXCEPT !.action = Str("unknown"), !.title = Str("hello")],
             [CalendarDoc(Undefined) EXCEPT !.dueDate = Str("2024-01-05")],
             [EmptyObject EXCEPT !.action = Str("delete"), !.date = Str("2024-01-05")],
             [EmptyObject EXCEPT !.action = Str(""), !.title = Str("Standup")],
             [EmptyObject EXCEPT !.title = Str("Standup")],
             EmptyObject }

\* Elements of an actions list.
ActionElements ==
    { CalendarDoc(Str("2024-01-05")), TaskDoc(Str("tomorrow")), EmailDoc,
      [EmptyObject EXCEPT !.action = Str("delete")] }

ActionLists == UNION { [1..n -> ActionElements] : n \in 0..MaxActions }

\* Decoded responses with an actions member: a list, with and without a top-level
\* action beside it, and a member that is no list.
MultiDocs ==
    { [EmptyObject EXCEPT !.actions = Arr(list)] : list \in ActionLists }
      \cup { [CalendarDoc(Str("2024-06-10")) EXCEPT !.actions = Arr(list)] :
                list \in { l \in ActionLists : Len(l) <= 1 } }
      \cup { [EmptyObject EXCEPT !.actions = Str("none")] }

\* The values JSON.parse may give in the model.
DecodedValues == SingleDocs \cup MultiDocs \cup { [type |-> "null"], [type |-> "number"] }

\* JSON.parse, on the texts of the model: the JSON text of a value decodes to that
\* value and every other text is a syntax error.
JsonTable == { <<Stringify(v), v>> : v \in DecodedValues }

JsonParse(s) ==
    LET hits == { e \in JsonTable : e[1] = s }
    IN  IF hits # {}
          THEN [ok |-> TRUE, value |-> (CHOOSE e \in hits : TRUE)[2]]
          ELSE [ok |-> FALSE, value |-> [type |-> "null"]]

\* How a backend wraps the JSON text j of its answer.
Wrappers ==
    { "fencedJson", "fenced", "leadingProse", "trailingProse", "trailingBrace",
      "twoObjects", "array", "arrayOfTwo" }

Wrap(w, j) ==
    CASE w = "fencedJson"    -> Fence \o "json\n" \o j \o "\n" \o Fence
      [] w = "fenced"        -> Fence \o "\n" \o j \o "\n" \o Fence
      [] w = "leadingProse"  -> "Here is the JSON you asked for:\n" \o j
      [] w = "trailingProse" -> j \o "\nLet me know if you need changes."
      [] w = "trailingBrace" -> j \o "\n(the object ends at the last })"
      [] w = "twoObjects"    -> j \o "\n" \o j
      [] w = "array"         -> "[" \o j \o "]"
      [] w = "arrayOfTwo"    -> "[" \o j \o "," \o j \o "]"

WrappedDocs == { CalendarDoc(Str("2024-01-05")), EmptyObject }

\* The text of every wrapped document, by wrapper and document.
WrapTable == { <<w, v, Wrap(w, Stringify(v))>> : w \in Wrappers, v \in WrappedDocs }

WrappedText(w, v) == (CHOOSE e \in WrapTable : e[1] = w /\ e[2] = v)[3]

ResponseTexts ==
    { "", "I am sorry, I cannot help with that." }
      \cup { Stringify(v) : v \in DecodedValues }
      \cup { Wrap(w, Stringify(v)) : w \in Wrappers, v \in WrappedDocs }

\* Email bodies a model may write: with and without a sign-off, a closing phrase in
\* the middle of the text, in capitals, without its comma, and two sign-offs.
MailBodies ==
    { "Let's sync next week.\n\nBest regards,\nAI Assistant",
      "Let's sync next week.",
      "Let's sync next week.\n\nBest regards,\nPriya Shah",
      "Hi Raj,\nThanks, that works. See you Monday.\n\nSincerely,\n[Your Name]",
      "Please review the budget.\n\nWARM REGARDS,\nGemini",
      "Thank you, team.",
      "Status update attached.  \n\n",
      " Cheers to all",
      "Kind regards, Priya Shah",
      "See you.\n\nBest regards,\nBot\n\nBest regards,\nBot" }

MailDoc(to, subject, body) ==
    [EmptyObject EXCEPT !.action = Str("email"), !.recipient = to,
                        !.subject = subject, !.body = body]

\* The records sendEmail is called with: complete email records, and records that
\* lack a field, hold an empty one, or are of another kind.
MailRecords ==
    { MailDoc(Str("raj@example.com"), Str("Budget"), Str(b)) : b \in MailBodies }
      \cup { MailDoc(Undefined, Str("Budget"), Str("Let's sync next week.")),
             MailDoc(Str(""), Str("Budget"), Str("Let's sync next week.")),
             MailDoc(Str("raj@example.com"), Undefined, Str("Let's sync next week.")),
             MailDoc(Str("raj@example.com"), Str("Budget"), Undefined),
             MailDoc(Str("raj@example.com"), Str("Budget"), Str("")),
             TaskDoc(Undefined) }

\* Profiles of the sending user: with a display name, without one, with a blank one.
Profiles ==
    { [name |-> Str("Priya Shah"), email |-> "priya.shah@example.com"],
      [name |-> Undefined, email |-> "raj.k@example.com"],
      [name |-> Str("  "), email |-> "dev@example.com"],
      [name |-> Str(""), email |-> "ops"] }

\* The dueDate of the task records createTask is called with.
TaskDueDates ==
    { Undefined, Str(""), Str("today"), Str(" Tomorrow"), Str("next friday"),
      Str("2025-06-12"), Str("2025-06-10T23:30") }

\* The records createTask is called with: task records, with and without a
\* description, and records without a title, with an empty one, or of another kind.
TaskRecords ==
    { TaskDoc(d) : d \in TaskDueDates }
      \cup { [TaskDoc(Undefined) EXCEPT !.description = Str(" 2 litres ")],
             [TaskDoc(Str("today")) EXCEPT !.description = Str("  ")],
             [TaskDoc(Undefined) EXCEPT !.title = Undefined],
             [TaskDoc(Str("today")) EXCEPT !.title = Str("")],
             EmailDoc,
             [EmptyObject EXCEPT !.title = Str("Buy milk")] }

\* What awaiting tasks.tasklists.list gives: lists, no list, no items member, or a
\* rejection.
ListOutcomes ==
    { [kind |-> "lists", id |-> "MDQ5-list"], [kind |-> "empty", id |-> ""],
      [kind |-> "noItems", id |-> ""], [kind |-> "rejects", id |-> ""] }

\* The instants a createTask call may start at.
TaskClocks == { UtcTime(AnchorYear, 6, 10, 12, 0), UtcTime(AnchorYear, 6, 10, 23, 30) }

\* The actions of the envelopes the dispatcher is given: a task and an email that
\* pass the validation of their service, an email with an empty recipient and a
\* task without a title.
DispatchElements ==
    { TaskDoc(Undefined),
      MailDoc(Str("raj@example.com"), Str("Budget"), Str("Let's sync next week.")),
      MailDoc(Str(""), Undefined, Undefined),
      [TaskDoc(Undefined) EXCEPT !.title = Undefined] }

Envelopes == UNION { [1..n -> DispatchElements] : n \in 1..MaxActions }

\* The text member of the bodies POST /test is called with: missing, not a
\* string, empty, blank, and command texts.
RequestTexts ==
    { Undefined, [type |-> "number"], Str(""), Str("   "),
      Str(" Schedule a task reminder "), Str("what is the weather") }

\* What awaiting model.generateContent and reading result?.response?.text() gives:
\* a rejection, no text, or a text.
GenOutcomes ==
    { [kind |-> "throws", text |-> ""], [kind |-> "undefined", text |-> ""] }
      \cup { [kind |-> "text", text |-> t] : t \in ResponseTexts }

NoOutcome == [kind |-> "none", text |-> ""]

(************************* variables of an idle part ***********************)

DateIdle ==
    /\ dateIn = Undefined
    /\ dateNow = <<>>
    /\ dateOut = Undefined
    /\ datePc = "idle"

AnalyzeIdle ==
    /\ apiKey = Undefined
    /\ text = ""
    /\ pc = "idle"
    /\ anchor = NoAnchor
    /\ genCalls = 0
    /\ genResult = NoOutcome
    /\ parsed = EmptyObject
    /\ idx = 0
    /\ dateReads = <<>>
    /\ caught = ""
    /\ ret = Undefined
    /\ thrown = ""

NoProfile == [name |-> Undefined, email |-> ""]

NoMessage == [to |-> "", subject |-> "", body |-> ""]

MailIdle ==
    /\ mailPc = "idle"
    /\ mailData = EmptyObject
    /\ profile = NoProfile
    /\ extCalls = <<>>
    /\ senderName = Undefined
    /\ sent = NoMessage
    /\ mailThrown = ""

NoTask == [title |-> Undefined, notes |-> Undefined, due |-> Undefined, status |-> ""]

TaskIdle ==
    /\ taskPc = "idle"
    /\ taskData = EmptyObject
    /\ taskCalls = <<>>
    /\ taskListId = ""
    /\ taskNow = <<>>
    /\ task = NoTask
    /\ taskFailed = {}
    /\ taskThrown = ""

DispatchIdle ==
    /\ envelope = <<>>
    /\ dIdx = 0
    /\ dPc = "idle"
    /\ results = <<>>

NoResponse == [status |-> 0, success |-> FALSE, message |-> "", geminiResponse |-> Undefined]

RouteIdle ==
    /\ reqBody = Undefined
    /\ routePc = "idle"
    /\ analyzeCalls = 0
    /\ response = NoResponse

NoFetch ==
    [ok |-> FALSE, status |-> 0, statusText |-> "", url |-> "", contentType |-> Undefined,
     body |-> ""]

NoSettle == [kind |-> "none", message |-> "", value |-> Undefined]

ApiIdle ==
    /\ apiFn = ""
    /\ apiPc = "idle"
    /\ apiResp = NoFetch
    /\ parses = <<>>
    /\ apiOut = NoSettle

SignIdle == userName = ""

NoEnv == [isProcessing |-> FALSE, isGoogleConnected |-> FALSE, currentChatId |-> Undefined]

NoSettled == [kind |-> "none"]

ChatIdle ==
    /\ isProcessing = FALSE
    /\ isGoogleConnected = FALSE
    /\ currentChatId = Undefined
    /\ effectEnv = NoEnv
    /\ pending = <<>>
    /\ submits = 0
    /\ chats = 0
    /\ saved = <<>>
    /\ settled = NoSettled

(*************************** specification DateSpec ************************)
\* One call of validateAndFixDate, with the clock free to advance between its two
\* readings.

DateInit ==
    /\ clock \in Clocks
    /\ tz \in Zones
    /\ dateIn \in DateValues
    /\ dateNow = <<>>
    /\ dateOut = Undefined
    /\ datePc = "ready"
    /\ ticks = 0
    /\ AnalyzeIdle
    /\ MailIdle
    /\ TaskIdle
    /\ DispatchIdle
    /\ RouteIdle
    /\ ApiIdle
    /\ SignIdle
    /\ ChatIdle

\* Time passes while a call is under way.
Tick ==
    /\ ticks < MaxTicks
    /\ \/ datePc \in { "ready", "yearRead" }
       \/ pc \in { "generating", "validating" }
       \/ taskPc \in { "auth", "listing" }
    /\ clock' = clock + TickMinutes
    /\ ticks' = ticks + 1
    /\ UNCHANGED <<tz, dateVars, analyzeVars, serviceVars>>

\* Line 176: const currentYear = new Date().getFullYear()
DateReadYear ==
    /\ datePc = "ready"
    /\ dateNow' = <<clock>>
    /\ datePc' = "yearRead"
    /\ UNCHANGED <<clock, tz, ticks, dateIn, dateOut, analyzeVars, serviceVars>>

\* Lines 179-202, with the reading of line 191.
DateReturn ==
    /\ datePc = "yearRead"
    /\ dateNow' = <<dateNow[1], clock>>
    /\ dateOut' = validateAndFixDate(dateIn, dateNow[1], clock, tz)
    /\ datePc' = "returned"
    /\ UNCHANGED <<clock, tz, ticks, dateIn, analyzeVars, serviceVars>>

DateNext == Tick \/ DateReadYear \/ DateReturn

DateSpec == DateInit /\ [][DateNext]_vars

(************************** specification AnalyzeSpec **********************)
\* One analyzeText request.  Each call of validateAndFixDate is one step in which
\* both of its clock readings give the same instant (DateSpec separates them); the
\* clock may advance while the generation call is pending and between two calls.

AnalyzeInit ==
    /\ clock \in AnalyzeClocks
    /\ tz \in Zones
    /\ ticks = 0
    /\ DateIdle
    /\ MailIdle
    /\ TaskIdle
    /\ DispatchIdle
    /\ RouteIdle
    /\ ApiIdle
    /\ SignIdle
    /\ ChatIdle
    /\ apiKey \in ApiKeys
    /\ text \in AnalyzeTexts
    /\ pc = "start"
    /\ anchor = NoAnchor
    /\ genCalls = 0
    /\ genResult = NoOutcome
    /\ parsed = EmptyObject
    /\ idx = 0
    /\ dateReads = <<>>
    /\ caught = ""
    /\ ret = Undefined
    /\ thrown = ""

\* A variant of the catch that starts the request over.
Catch_Retry(message) ==
    /\ caught' = message
    /\ pc' = "start"
    /\ UNCHANGED ret

\* Lines 248-268: the catch logs the error and returns the fallback record.
Catch(message) ==
    /\ caught' = message
    /\ ret' = FallbackRecord(text)
    /\ pc' = "returned"

\* Lines 28-38: the anchor is computed; a missing or blank key throws.
AnalyzeRejectsKey ==
    /\ pc = "start"
    /\ ApiKeyMissing(apiKey)
    /\ anchor' = DateAnchor(clock, tz)
    /\ thrown' = "GEMINI_API_KEY is not set in .env file."
    /\ pc' = "threw"
    /\ UNCHANGED <<clock, tz, ticks, dateVars, serviceVars, apiKey, text, genCalls, genResult,
                   parsed, idx, dateReads, caught, ret>>

\* Lines 28-141: the anchor is computed, the prompt is built from it and
\* model.generateContent(prompt) is called.
AnalyzeCallsGenerate ==
    /\ pc = "start"
    /\ ~ApiKeyMissing(apiKey)
    /\ anchor' = DateAnchor(clock, tz)
    /\ genCalls' = genCalls + 1
    /\ pc' = "generating"
    /\ UNCHANGED <<clock, tz, ticks, dateVars, serviceVars, apiKey, text, genResult, parsed, idx,
                   dateReads, caught, ret, thrown>>

\* Lines 141-165: the call settles with an outcome; the response text is cleaned
\* and decoded.  A rejection, an empty response and a text that does not decode go
\* to the catch, as does the TypeError of reading parsed.action of null (line 210).
Settle(outcome) ==
    /\ pc = "generating"
    /\ genResult' = outcome
    /\ LET decoded == JsonParse(JsonSpan(CleanResponse(outcome.text)))
       IN  CASE outcome.kind = "throws" ->
                  Catch("generateContent rejected") /\ UNCHANGED parsed
             [] outcome.kind = "undefined" \/ outcome.text = "" ->
                  Catch("Empty response from Gemini") /\ UNCHANGED parsed
             [] ~decoded.ok ->
                  Catch("JSON parse failed") /\ UNCHANGED parsed
             [] decoded.value.type = "null" ->
                  Catch("TypeError") /\ UNCHANGED parsed
             [] decoded.value.type = "number" ->
                  Catch("Missing action in Gemini response") /\ UNCHANGED parsed
             [] OTHER ->
                  /\ parsed' = decoded.value
                  /\ pc' = "validating"
                  /\ UNCHANGED <<caught, ret>>
    /\ UNCHANGED <<clock, tz, ticks, dateVars, serviceVars, apiKey, text, anchor, genCalls, idx,
                   dateReads, thrown>>

GenerateSettles == \E outcome \in GenOutcomes : Settle(outcome)

\* Whether ValidateDates calls validateAndFixDate for a record.
CallsValidate(rec) ==
    \/ StrictEq(rec.action, "calendar") /\ Truthy(rec.date)
    \/ StrictEq(rec.action, "task") /\ Truthy(rec.dueDate)

\* Lines 209-219: the dates of the top-level record.
ValidateTopLevel ==
    /\ pc = "validating"
    /\ idx = 0
    /\ parsed' = ValidateDates(parsed, clock, tz)
    /\ dateReads' = IF CallsValidate(parsed) THEN Append(dateReads, clock) ELSE dateReads
    /\ idx' = 1
    /\ UNCHANGED <<clock, tz, ticks, dateVars, serviceVars, apiKey, text, pc, anchor, genCalls,
                   genResult, caught, ret, thrown>>

\* Lines 222-231: the dates of one element of parsed.actions.
ValidateElement ==
    /\ pc = "validating"
    /\ idx >= 1
    /\ HasActionList(parsed)
    /\ idx <= Len(parsed.actions.val)
    /\ parsed' = [parsed EXCEPT !.actions.val[idx] =
                     ValidateDates(parsed.actions.val[idx], clock, tz)]
    /\ dateReads' = IF CallsValidate(parsed.actions.val[idx])
                      THEN Append(dateReads, clock) ELSE dateReads
    /\ idx' = idx + 1
    /\ UNCHANGED <<clock, tz, ticks, dateVars, serviceVars, apiKey, text, pc, anchor, genCalls,
                   genResult, caught, ret, thrown>>

\* Lines 241-246: a record without action and actions goes to the catch; any other
\* is returned.
ValidateAction ==
    /\ pc = "validating"
    /\ idx >= 1
    /\ HasActionList(parsed) => idx > Len(parsed.actions.val)
    /\ IF MissingAction(parsed)
         THEN Catch("Missing action in Gemini response")
         ELSE /\ ret' = parsed
              /\ pc' = "returned"
              /\ UNCHANGED caught
    /\ UNCHANGED <<clock, tz, ticks, dateVars, serviceVars, apiKey, text, anchor, genCalls,
                   genResult, parsed, idx, dateReads, thrown>>

AnalyzeNext ==
    \/ Tick
    \/ AnalyzeRejectsKey
    \/ AnalyzeCallsGenerate
    \/ GenerateSettles
    \/ ValidateTopLevel
    \/ ValidateElement
    \/ ValidateAction

AnalyzeSpec == AnalyzeInit /\ [][AnalyzeNext]_vars

(************************** specification FallbackSpec *********************)
\* analyzeText requests, over many command texts, whose generation call rejects:
\* the fallback of the catch block applied to each text.

FallbackInit ==
    /\ clock = UtcTime(AnchorYear, 6, 10, 12, 0)
    /\ tz = 0
    /\ ticks = 0
    /\ DateIdle
    /\ MailIdle
    /\ TaskIdle
    /\ DispatchIdle
    /\ RouteIdle
    /\ ApiIdle
    /\ SignIdle
    /\ ChatIdle
    /\ apiKey = Str("AIza-test-key")
    /\ text \in FallbackTexts
    /\ pc = "start"
    /\ anchor = NoAnchor
    /\ genCalls = 0
    /\ genResult = NoOutcome
    /\ parsed = EmptyObject
    /\ idx = 0
    /\ dateReads = <<>>
    /\ caught = ""
    /\ ret = Undefined
    /\ thrown = ""

GenerateRejects == Settle([kind |-> "throws", text |-> ""])

FallbackNext == AnalyzeCallsGenerate \/ GenerateRejects

FallbackSpec == FallbackInit /\ [][FallbackNext]_vars

(**************************** specification MailSpec ***********************)
\* One sendEmail call.  Each of its three external calls may fail.

MailInit ==
    /\ clock = UtcTime(AnchorYear, 6, 10, 12, 0)
    /\ tz = 0
    /\ ticks = 0
    /\ DateIdle
    /\ AnalyzeIdle
    /\ TaskIdle
    /\ DispatchIdle
    /\ RouteIdle
    /\ ApiIdle
    /\ SignIdle
    /\ ChatIdle
    /\ mailPc = "start"
    /\ mailData \in MailRecords
    /\ profile \in Profiles
    /\ extCalls = <<>>
    /\ senderName = Undefined
    /\ sent = NoMessage
    /\ mailThrown = ""

MailFrame ==
    UNCHANGED <<clock, tz, ticks, dateVars, analyzeVars, taskVars, dispatchVars, routeVars,
                apiVars, signVars, chatVars, mailData, profile>>

\* Lines 54-68: a record that fails the validation throws.
SendRejectsRecord ==
    /\ mailPc = "start"
    /\ MailValidationError(mailData) # ""
    /\ mailThrown' = MailValidationError(mailData)
    /\ mailPc' = "threw"
    /\ UNCHANGED <<extCalls, senderName, sent>>
    /\ MailFrame

\* Lines 54-71: a record that passes; getAuthenticatedClient(userId) is called.
SendCallsAuth ==
    /\ mailPc = "start"
    /\ MailValidationError(mailData) = ""
    /\ extCalls' = Append(extCalls, "getAuthenticatedClient")
    /\ mailPc' = "auth"
    /\ UNCHANGED <<senderName, sent, mailThrown>>
    /\ MailFrame

\* A pending external call rejects: sendEmail has no catch, the error is thrown on.
ExternalCallFails ==
    /\ mailPc \in { "auth", "profile", "sending" }
    /\ mailThrown' = extCalls[Len(extCalls)] \o " failed"
    /\ mailPc' = "threw"
    /\ UNCHANGED <<extCalls, senderName, sent>>
    /\ MailFrame

\* Lines 71-76: the client is there; getUserProfile(userId) is called.
AuthSettles ==
    /\ mailPc = "auth"
    /\ extCalls' = Append(extCalls, "getUserProfile")
    /\ mailPc' = "profile"
    /\ UNCHANGED <<senderName, sent, mailThrown>>
    /\ MailFrame

\* Lines 76-107: the profile is there; the sender name is chosen, the signature of
\* the body is replaced, the message is built and gmail.users.messages.send is
\* called.  The message is the text createEmailMessage encodes (lines 30-36); its
\* base64url encoding (lines 38-42) is not modelled.
ProfileSettles ==
    /\ mailPc = "profile"
    /\ senderName' = Str(SenderNameOf(profile))
    /\ sent' = [to |-> mailData.recipient.val, subject |-> mailData.subject.val,
                body |-> appendSignature(removeAISignature(mailData.body.val),
                                         SenderNameOf(profile))]
    /\ extCalls' = Append(extCalls, "gmail.users.messages.send")
    /\ mailPc' = "sending"
    /\ UNCHANGED mailThrown
    /\ MailFrame

\* Lines 107-114: the send call settles, with or without response data.
SendSettles ==
    /\ mailPc = "sending"
    /\ \E hasData \in BOOLEAN :
         IF hasData
           THEN mailPc' = "returned" /\ UNCHANGED mailThrown
           ELSE mailPc' = "threw" /\ mailThrown' = "Failed to send email"
    /\ UNCHANGED <<extCalls, senderName, sent>>
    /\ MailFrame

MailNext ==
    \/ SendRejectsRecord
    \/ SendCallsAuth
    \/ ExternalCallFails
    \/ AuthSettles
    \/ ProfileSettles
    \/ SendSettles

MailSpec == MailInit /\ [][MailNext]_vars

(**************************** specification TaskSpec ***********************)
\* One createTask call.  Each of its three external calls may fail.

TaskInit ==
    /\ clock \in TaskClocks
    /\ tz \in Zones
    /\ ticks = 0
    /\ DateIdle
    /\ AnalyzeIdle
    /\ MailIdle
    /\ DispatchIdle
    /\ RouteIdle
    /\ ApiIdle
    /\ SignIdle
    /\ ChatIdle
    /\ taskPc = "start"
    /\ taskData \in TaskRecords
    /\ taskCalls = <<>>
    /\ taskListId = ""
    /\ taskNow = <<>>
    /\ task = NoTask
    /\ taskFailed = {}
    /\ taskThrown = ""

TaskFrame ==
    UNCHANGED <<clock, tz, ticks, dateVars, analyzeVars, mailVars, dispatchVars, routeVars,
                apiVars, signVars, chatVars, taskData>>

\* Lines 70-76: a record that fails the validation throws.
TaskRejectsRecord ==
    /\ taskPc = "start"
    /\ TaskValidationError(taskData) # ""
    /\ taskThrown' = TaskValidationError(taskData)
    /\ taskPc' = "threw"
    /\ UNCHANGED <<taskCalls, taskListId, taskNow, task, taskFailed>>
    /\ TaskFrame

\* Lines 70-78: a record that passes; getAuthenticatedClient(userId) is called.
TaskCallsAuth ==
    /\ taskPc = "start"
    /\ TaskValidationError(taskData) = ""
    /\ taskCalls' = Append(taskCalls, "getAuthenticatedClient")
    /\ taskPc' = "auth"
    /\ UNCHANGED <<taskListId, taskNow, task, taskFailed, taskThrown>>
    /\ TaskFrame

\* Line 78: getAuthenticatedClient rejects; createTask has no catch.
TaskAuthFails ==
    /\ taskPc = "auth"
    /\ taskFailed' = taskFailed \cup { "getAuthenticatedClient" }
    /\ taskThrown' = "getAuthenticatedClient failed"
    /\ taskPc' = "threw"
    /\ UNCHANGED <<taskCalls, taskListId, taskNow, task>>
    /\ TaskFrame

\* Lines 78-81 and 45-46: the client is there; getTaskListId calls
\* tasks.tasklists.list.
TaskAuthSettles ==
    /\ taskPc = "auth"
    /\ taskCalls' = Append(taskCalls, "tasks.tasklists.list")
    /\ taskPc' = "listing"
    /\ UNCHANGED <<taskListId, taskNow, task, taskFailed, taskThrown>>
    /\ TaskFrame

\* Lines 46-60 and 81-99: the list call settles and getTaskListId resolves; the due
\* date is parsed, the request body is built and tasks.tasks.insert is called.
ListSettles ==
    /\ taskPc = "listing"
    /\ \E outcome \in ListOutcomes :
         /\ taskListId' = TaskListIdOf(outcome)
         /\ taskFailed' = IF outcome.kind = "rejects"
                            THEN taskFailed \cup { "tasks.tasklists.list" }
                            ELSE taskFailed
    /\ taskNow' = IF Truthy(taskData.dueDate) THEN Append(taskNow, clock) ELSE taskNow
    /\ task' = TaskBody(taskData, clock, tz)
    /\ taskCalls' = Append(taskCalls, "tasks.tasks.insert")
    /\ taskPc' = "inserting"
    /\ UNCHANGED taskThrown
    /\ TaskFrame

\* Line 96: tasks.tasks.insert rejects.
InsertFails ==
    /\ taskPc = "inserting"
    /\ taskFailed' = taskFailed \cup { "tasks.tasks.insert" }
    /\ taskThrown' = "tasks.tasks.insert failed"
    /\ taskPc' = "threw"
    /\ UNCHANGED <<taskCalls, taskListId, taskNow, task>>
    /\ TaskFrame

\* Lines 96-105: the insert settles, with or without response data.
InsertSettles ==
    /\ taskPc = "inserting"
    /\ \E hasData \in BOOLEAN :
         IF hasData
           THEN taskPc' = "returned" /\ UNCHANGED taskThrown
           ELSE taskPc' = "threw" /\ taskThrown' = "Failed to create task"
    /\ UNCHANGED <<taskCalls, taskListId, taskNow, task, taskFailed>>
    /\ TaskFrame

TaskNext ==
    \/ Tick
    \/ TaskRejectsRecord
    \/ TaskCallsAuth
    \/ TaskAuthFails
    \/ TaskAuthSettles
    \/ ListSettles
    \/ InsertFails
    \/ InsertSettles

TaskSpec == TaskInit /\ [][TaskNext]_vars

(*************************** specification ServiceSpec *********************)
\* One call of a dispatch service: createTask or sendEmail.

ServiceInit == TaskInit \/ MailInit

ServiceNext == TaskNext \/ MailNext

ServiceSpec == ServiceInit /\ [][ServiceNext]_vars

(*************************** specification DispatchSpec ********************)
\* The dispatch of a multi-action envelope.  The loop of the dispatcher is not
\* in the sources (section 5 of the specification describes it: the actions are
\* dispatched one after the other, in their order, and the result of each is
\* collected); the services it calls are createTask and sendEmail as above.  The
\* calendar service is not in the sources either: the envelopes hold tasks and
\* emails.

DispatchInit ==
    /\ clock = UtcTime(AnchorYear, 6, 10, 12, 0)
    /\ tz = 0
    /\ ticks = 0
    /\ DateIdle
    /\ AnalyzeIdle
    /\ TaskIdle
    /\ mailPc = "idle"
    /\ mailData = EmptyObject
    /\ profile = [name |-> Str("Priya Shah"), email |-> "priya.shah@example.com"]
    /\ extCalls = <<>>
    /\ senderName = Undefined
    /\ sent = NoMessage
    /\ mailThrown = ""
    /\ RouteIdle
    /\ ApiIdle
    /\ SignIdle
    /\ ChatIdle
    /\ envelope \in Envelopes
    /\ dIdx = 1
    /\ dPc = "next"
    /\ results = <<>>

DispatchFrame ==
    UNCHANGED <<clock, tz, ticks, dateVars, analyzeVars, routeVars, apiVars, signVars, chatVars, envelope>>

\* The next action is a task: createTask is called with it.
DispatchTask ==
    /\ dPc = "next"
    /\ dIdx <= Len(envelope)
    /\ StrictEq(envelope[dIdx].action, "task")
    /\ taskPc' = "start"
    /\ taskData' = envelope[dIdx]
    /\ taskCalls' = <<>>
    /\ taskListId' = ""
    /\ taskNow' = <<>>
    /\ task' = NoTask
    /\ taskFailed' = {}
    /\ taskThrown' = ""
    /\ dPc' = "awaiting"
    /\ UNCHANGED <<mailVars, dIdx, results>>
    /\ DispatchFrame

\* The next action is an email: sendEmail is called with it.
DispatchEmail ==
    /\ dPc = "next"
    /\ dIdx <= Len(envelope)
    /\ StrictEq(envelope[dIdx].action, "email")
    /\ mailPc' = "start"
    /\ mailData' = envelope[dIdx]
    /\ extCalls' = <<>>
    /\ senderName' = Undefined
    /\ sent' = NoMessage
    /\ mailThrown' = ""
    /\ dPc' = "awaiting"
    /\ UNCHANGED <<taskVars, profile, dIdx, results>>
    /\ DispatchFrame

\* The result of a dispatch: the action, whether its service returned, and the
\* message of the error it threw.
ResultOf(rec, returned, message) ==
    [action |-> rec.action.val, success |-> returned, message |-> message]

\* createTask settled: its result is collected and the dispatcher moves on.
CollectTask ==
    /\ dPc = "awaiting"
    /\ taskPc \in { "returned", "threw" }
    /\ results' = Append(results, ResultOf(envelope[dIdx], taskPc = "returned", taskThrown))
    /\ taskPc' = "idle"
    /\ dIdx' = dIdx + 1
    /\ dPc' = "next"
    /\ UNCHANGED <<mailVars, taskData, taskCalls, taskListId, taskNow, task, taskFailed,
                   taskThrown>>
    /\ DispatchFrame

\* sendEmail settled: its result is collected and the dispatcher moves on.
CollectEmail ==
    /\ dPc = "awaiting"
    /\ mailPc \in { "returned", "threw" }
    /\ results' = Append(results, ResultOf(envelope[dIdx], mailPc = "returned", mailThrown))
    /\ mailPc' = "idle"
    /\ dIdx' = dIdx + 1
    /\ dPc' = "next"
    /\ UNCHANGED <<taskVars, mailData, profile, extCalls, senderName, sent, mailThrown>>
    /\ DispatchFrame

\* Every action was dispatched: the results are reported.
DispatchEnds ==
    /\ dPc = "next"
    /\ dIdx > Len(envelope)
    /\ dPc' = "done"
    /\ UNCHANGED <<mailVars, taskVars, dIdx, results>>
    /\ DispatchFrame

DispatchNext ==
    \/ DispatchTask
    \/ DispatchEmail
    \/ CollectTask
    \/ CollectEmail
    \/ DispatchEnds
    \/ TaskRejectsRecord
    \/ TaskCallsAuth
    \/ TaskAuthFails
    \/ TaskAuthSettles
    \/ ListSettles
    \/ InsertFails
    \/ InsertSettles
    \/ SendRejectsRecord
    \/ SendCallsAuth
    \/ ExternalCallFails
    \/ AuthSettles
    \/ ProfileSettles
    \/ SendSettles

DispatchSpec == DispatchInit /\ [][DispatchNext]_vars

(**************************** specification RouteSpec **********************)
\* One request to POST /test, after the middleware let it through: the handler
\* (googleGmail.service.ts lines 129-170) and the analyzeText call it makes.

RouteInit ==
    /\ clock = UtcTime(AnchorYear, 6, 10, 12, 0)
    /\ tz = 0
    /\ ticks = 0
    /\ DateIdle
    /\ MailIdle
    /\ TaskIdle
    /\ DispatchIdle
    /\ ApiIdle
    /\ SignIdle
    /\ ChatIdle
    /\ apiKey \in ApiKeys
    /\ text = ""
    /\ pc = "idle"
    /\ anchor = NoAnchor
    /\ genCalls = 0
    /\ genResult = NoOutcome
    /\ parsed = EmptyObject
    /\ idx = 0
    /\ dateReads = <<>>
    /\ caught = ""
    /\ ret = Undefined
    /\ thrown = ""
    /\ reqBody \in RequestTexts
    /\ routePc = "received"
    /\ analyzeCalls = 0
    /\ response = NoResponse

RouteFrame ==
    UNCHANGED <<clock, tz, ticks, dateVars, mailVars, taskVars, dispatchVars, apiVars, signVars, chatVars, reqBody>>

\* Lines 134-142: a missing, non-string or blank text is answered with 400.
RouteRejects ==
    /\ routePc = "received"
    /\ RouteRejectsText(reqBody)
    /\ response' = [status |-> 400, success |-> FALSE,
                    message |-> "Text input is required", geminiResponse |-> Undefined]
    /\ routePc' = "responded"
    /\ UNCHANGED <<analyzeVars, analyzeCalls>>
    /\ RouteFrame

\* Lines 134-154: analyzeText(text.trim(), userName) is called.
RouteCallsAnalyze ==
    /\ routePc = "received"
    /\ ~RouteRejectsText(reqBody)
    /\ text' = Trim(reqBody.val)
    /\ pc' = "start"
    /\ analyzeCalls' = analyzeCalls + 1
    /\ routePc' = "awaiting"
    /\ UNCHANGED <<apiKey, anchor, genCalls, genResult, parsed, idx, dateReads, caught, ret,
                   thrown, response>>
    /\ RouteFrame

\* Lines 154-160: analyzeText resolved; the record is sent with 200.
RouteSendsResult ==
    /\ routePc = "awaiting"
    /\ pc = "returned"
    /\ response' = [status |-> 200, success |-> TRUE,
                    message |-> "Gemini API test successful", geminiResponse |-> ret]
    /\ routePc' = "responded"
    /\ UNCHANGED <<analyzeVars, analyzeCalls>>
    /\ RouteFrame

\* Lines 161-168: analyzeText rejected; the message of the error is sent with 500.
RouteSendsError ==
    /\ routePc = "awaiting"
    /\ pc = "threw"
    /\ response' = [status |-> 500, success |-> FALSE,
                    message |-> (IF thrown # "" THEN thrown ELSE "Gemini API test failed"),
                    geminiResponse |-> Undefined]
    /\ routePc' = "responded"
    /\ UNCHANGED <<analyzeVars, analyzeCalls>>
    /\ RouteFrame

RouteNext ==
    \/ RouteRejects
    \/ RouteCallsAnalyze
    \/ RouteSendsResult
    \/ RouteSendsError
    \/ AnalyzeRejectsKey
    \/ AnalyzeCallsGenerate
    \/ GenerateSettles
    \/ ValidateTopLevel
    \/ ValidateElement
    \/ ValidateAction

RouteSpec == RouteInit /\ [][RouteNext]_vars

(***************************** specification ApiSpec ***********************)

\* The four exported functions that call the backend.
ApiFunctions == { "processText", "getGoogleAuthUrl", "checkBackendHealth",
                  "checkGoogleConnection" }

\* The endpoint each of them fetches.
EndpointOf(fn) ==
    CASE fn = "processText" -> "/api/process-text"
      [] fn = "getGoogleAuthUrl" -> "/api/auth/google/url"
      [] fn = "checkGoogleConnection" -> "/api/auth/google/status"
      [] OTHER -> HealthUrl

\* The Content-Type header of a response: absent, empty, JSON with and without
\* parameters, HTML, plain text, and a JSON type in capitals.
ContentTypes ==
    { Undefined, Str(""), Str("application/json"),
      Str("application/json; charset=utf-8"), Str("text/html; charset=utf-8"),
      Str("text/plain"), Str("Application/JSON") }

StatusLines ==
    { [status |-> 200, statusText |-> "OK"],
      [status |-> 404, statusText |-> "Not Found"],
      [status |-> 500, statusText |-> "Internal Server Error"] }

ApiBodies ==
    { ApiStringify(v) : v \in ApiValues }
      \cup { "<!DOCTYPE html><html><body>Cannot GET</body></html>", "" }

\* What fetch can resolve with for a request to url.
ApiResponses(url) ==
    { [ok |-> line.status = 200, status |-> line.status, statusText |-> line.statusText,
       url |-> url, contentType |-> ct, body |-> b] :
        line \in StatusLines, ct \in ContentTypes, b \in ApiBodies }

ApiInit ==
    /\ clock = UtcTime(AnchorYear, 6, 10, 12, 0)
    /\ tz = 0
    /\ ticks = 0
    /\ DateIdle
    /\ AnalyzeIdle
    /\ MailIdle
    /\ TaskIdle
    /\ DispatchIdle
    /\ RouteIdle
    /\ SignIdle
    /\ ChatIdle
    /\ apiFn \in ApiFunctions
    /\ apiPc = "start"
    /\ apiResp = NoFetch
    /\ parses = <<>>
    /\ apiOut = NoSettle

ApiFrame ==
    UNCHANGED <<clock, tz, ticks, dateVars, analyzeVars, mailVars, taskVars,
                dispatchVars, routeVars, signVars, chatVars, apiFn>>

\* Lines 84-88, 120-124, 196-200: without a signed-in user the function throws
\* before it fetches.
ApiNoToken ==
    /\ apiPc = "start"
    /\ apiFn # "checkBackendHealth"
    /\ apiOut' = Throw("User not authenticated. Please sign in.")
    /\ apiPc' = "settled"
    /\ UNCHANGED <<apiResp, parses>>
    /\ ApiFrame

\* Lines 90, 126, 159, 202: fetch is called.
ApiFetches ==
    /\ apiPc = "start"
    /\ apiPc' = "fetching"
    /\ UNCHANGED <<apiResp, parses, apiOut>>
    /\ ApiFrame

\* fetch rejects: the error leaves processText, getGoogleAuthUrl and
\* checkGoogleConnection as it is, and goes through the outer catch of
\* checkBackendHealth.
ApiFetchRejects ==
    /\ apiPc = "fetching"
    /\ apiOut' = IF apiFn = "checkBackendHealth" THEN HealthCatch("Failed to fetch")
                 ELSE Throw("Failed to fetch")
    /\ apiPc' = "settled"
    /\ UNCHANGED <<apiResp, parses>>
    /\ ApiFrame

\* fetch resolves: on either branch of response.ok the body is handed to
\* parseJsonResponse, once, and the function settles on what it gave.
ApiFetchSettles ==
    /\ apiPc = "fetching"
    /\ \E res \in ApiResponses(EndpointOf(apiFn)) :
         LET p == parseJsonResponse(res)
         IN  /\ apiResp' = res
             /\ parses' = Append(parses, p)
             /\ apiOut' = IF apiFn = "checkBackendHealth" THEN HealthSettle(res, p)
                          ELSE AuthedSettle(apiFn, res, p)
    /\ apiPc' = "settled"
    /\ ApiFrame

ApiNext ==
    \/ ApiNoToken
    \/ ApiFetches
    \/ ApiFetchRejects
    \/ ApiFetchSettles

ApiSpec == ApiInit /\ [][ApiNext]_vars

(**************************** specification SignSpec ***********************)
\* One request of the analyzeText of gemini.service.ts, which applies the email
\* signature fix to what it decoded and validates no dates.

\* The userName argument: names, a name with white space around it, a blank one
\* and the default.
UserNames == { "Priya Shah", " Raj ", "  ", "User", "dev" }

\* Email bodies of the decoded response, beside those of MailBodies: the
\* placeholder in capitals, a body that mentions the names of UserNames, and a
\* body that ends with the block of a name.
SignBodies ==
    MailBodies
      \cup { "Hello,\nthe report is ready.\n\nBest regards,\n[YOUR NAME]",
             "Priya Shah and Raj asked me to forward this to the dev team.",
             "The report is ready.\n\nBest regards,\nUser" }

\* The decoded responses: email records with these bodies, an email record with
\* an empty body and one without, a task record, a record without an action,
\* and null.
SignDocs ==
    { MailDoc(Str("raj@example.com"), Str("Budget"), Str(b)) : b \in SignBodies }
      \cup { MailDoc(Str("raj@example.com"), Str("Budget"), Str("")),
             MailDoc(Str("raj@example.com"), Str("Budget"), Undefined),
             [TaskDoc(Str("tomorrow")) EXCEPT !.body = Str("Buy milk")],
             [EmptyObject EXCEPT !.body = Str("Let's sync next week.")],
             [type |-> "null"] }

SignJsonTable == { <<Stringify(v), v>> : v \in SignDocs }

\* JSON.parse, on the texts of this specification.
SignJsonParse(s) ==
    LET hits == { e \in SignJsonTable : e[1] = s }
    IN  IF hits # {}
          THEN [ok |-> TRUE, value |-> (CHOOSE e \in hits : TRUE)[2]]
          ELSE [ok |-> FALSE, value |-> [type |-> "null"]]

SignOutcomes ==
    { [kind |-> "throws", text |-> ""], [kind |-> "undefined", text |-> ""],
      [kind |-> "text", text |-> "I am sorry, I cannot help with that."] }
      \cup { [kind |-> "text", text |-> Stringify(v)] : v \in SignDocs }
      \cup { [kind |-> "text", text |-> Wrap("fencedJson", Stringify(v))] :
               v \in { MailDoc(Str("raj@example.com"), Str("Budget"),
                               Str("Let's sync next week.")) } }

SignInit ==
    /\ clock = UtcTime(AnchorYear, 6, 10, 12, 0)
    /\ tz = 0
    /\ ticks = 0
    /\ DateIdle
    /\ MailIdle
    /\ TaskIdle
    /\ DispatchIdle
    /\ RouteIdle
    /\ ApiIdle
    /\ ChatIdle
    /\ userName \in UserNames
    /\ apiKey \in { Str(""), Str("AIza-test-key") }
    /\ text \in { "email Raj about the budget", "what is the weather" }
    /\ pc = "start"
    /\ anchor = NoAnchor
    /\ genCalls = 0
    /\ genResult = NoOutcome
    /\ parsed = EmptyObject
    /\ idx = 0
    /\ dateReads = <<>>
    /\ caught = ""
    /\ ret = Undefined
    /\ thrown = ""

SignFrame ==
    UNCHANGED <<clock, tz, ticks, dateVars, mailVars, taskVars, dispatchVars, routeVars,
                apiVars, signVars, chatVars, apiKey, text, anchor, idx, dateReads>>

\* Lines 27-30: a missing or blank key throws.
SignRejectsKey ==
    /\ pc = "start"
    /\ ApiKeyMissing(apiKey)
    /\ thrown' = "GEMINI_API_KEY is not set in .env file."
    /\ pc' = "threw"
    /\ UNCHANGED <<genCalls, genResult, parsed, caught, ret>>
    /\ SignFrame

\* Lines 32-73: the prompt is built and model.generateContent(prompt) is called.
SignCallsGenerate ==
    /\ pc = "start"
    /\ ~ApiKeyMissing(apiKey)
    /\ genCalls' = genCalls + 1
    /\ pc' = "generating"
    /\ UNCHANGED <<genResult, parsed, caught, ret, thrown>>
    /\ SignFrame

\* Lines 73-119: the call settles; the response text is cleaned and decoded, the
\* signature fix is applied, and a record with an action or an actions list is
\* returned.  Every failure on the way goes to the catch of line 121.
SignSettles ==
    /\ pc = "generating"
    /\ \E outcome \in SignOutcomes :
         /\ genResult' = outcome
         /\ LET decoded == SignJsonParse(JsonSpan(CleanResponse(outcome.text)))
                fixed   == SignatureFix(decoded.value, userName)
            IN  CASE outcome.kind = "throws" ->
                       Catch("generateContent rejected") /\ UNCHANGED parsed
                  [] outcome.kind = "undefined" \/ outcome.text = "" ->
                       Catch("Empty response from Gemini") /\ UNCHANGED parsed
                  [] ~decoded.ok ->
                       Catch("JSON parse failed") /\ UNCHANGED parsed
                  [] decoded.value.type = "null" ->
                       Catch("TypeError") /\ UNCHANGED parsed
                  [] MissingAction(fixed) ->
                       Catch("Missing action in Gemini response") /\ parsed' = fixed
                  [] OTHER ->
                       /\ parsed' = fixed
                       /\ ret' = fixed
                       /\ pc' = "returned"
                       /\ UNCHANGED caught
    /\ UNCHANGED <<genCalls, thrown>>
    /\ SignFrame

SignNext == SignRejectsKey \/ SignCallsGenerate \/ SignSettles

SignSpec == SignInit /\ [][SignNext]_vars

(***************************** claims on DateSpec **************************)

\* The year, month and day written in a date string that starts YYYY-MM-DD.
WrittenYear(s) == ToInt(SubSeq(s, 1, 4))
WrittenMonth(s) == ToInt(SubSeq(s, 6, 7))
WrittenDay(s) == ToInt(SubSeq(s, 9, 10))

DateParses == IsString(dateIn) /\ dateIn.val # "" /\ ParseDate(dateIn.val, tz).valid

\* The anchor of the call: the local year of its first clock reading and the local
\* day of its second.
DateAnchorYear == GetFullYear(dateNow[1], tz)
DateAnchorDay == LocalDay(dateNow[2], tz)

\* C1 (as claimed): a parseable date of a year before the anchor year comes back
\* with its month and day, in the anchor year when that day of the anchor year is
\* not before today, and in the year after otherwise.
C1_PastYearKeepsMonthDay ==
    (datePc = "returned" /\ DateParses /\ WrittenYear(dateIn.val) < DateAnchorYear)
      => LET m == WrittenMonth(dateIn.val)
             d == WrittenDay(dateIn.val)
             y == IF DaysFromCivil(DateAnchorYear, m, d) < DateAnchorDay
                    THEN DateAnchorYear + 1 ELSE DateAnchorYear
         IN  dateOut = Str(IsoDateOf(y, m, d))

\* C2 (as claimed): a parseable date of the anchor year or a later year comes back
\* unchanged.
C2_CurrentYearUnchanged ==
    (datePc = "returned" /\ DateParses /\ WrittenYear(dateIn.val) >= DateAnchorYear)
      => dateOut = dateIn

(**************************** claims on AnalyzeSpec *************************)

ActionKinds == { "calendar", "task", "email", "unknown" }

\* The credential is missing or blank: absent, empty, or white space only.
KeyBlank ==
    \/ apiKey = Undefined
    \/ apiKey.type = "string" /\ \A i \in 1..Len(apiKey.val) : Char(apiKey.val, i) = " "

\* What each response text of the model decodes to: the value JSON.parse gives for
\* the span of the cleaned text.
DecodeTable == { <<t, JsonParse(JsonSpan(CleanResponse(t))).value>> : t \in ResponseTexts }

\* The value JSON.parse gave in this request (parsed before any correction).
Decoded == (CHOOSE e \in DecodeTable : e[1] = genResult.text)[2]

\* The request returned what the pipeline decoded, not the fallback record.
ReturnedDecoded == pc = "returned" /\ caught = ""

\* A string that is no calendar date.
Unparseable(v) == IsString(v) /\ ~ParseDate(v.val, tz).valid

\* The date-bearing field of a record: date of a calendar record, dueDate of a task
\* record, and none for the other kinds.
DateBearing(rec) ==
    IF StrictEq(rec.action, "calendar") THEN "date"
    ELSE IF StrictEq(rec.action, "task") THEN "dueDate"
    ELSE "none"

\* The pairs <<record before, record after>> of the request: the top-level record
\* and every element of actions.
RecordPairs ==
    LET decoded == Decoded
    IN  { <<decoded, ret>> }
          \cup (IF HasActionList(decoded)
                  THEN { <<decoded.actions.val[i], ret.actions.val[i]>> :
                           i \in 1..Len(decoded.actions.val) }
                  ELSE {})

\* C3 (as claimed): a date-bearing field that cannot be parsed is undefined in the
\* record analyzeText returns.
C3_UnparseableDateDropped ==
    ReturnedDecoded =>
      \A p \in RecordPairs :
        /\ (DateBearing(p[1]) = "date" /\ Unparseable(p[1].date))
             => p[2].date = Undefined
        /\ (DateBearing(p[1]) = "dueDate" /\ Unparseable(p[1].dueDate))
             => p[2].dueDate = Undefined

\* C3 (amended): a date-bearing field that is a non-empty string and cannot be
\* parsed is undefined in the record analyzeText returns; an empty string is
\* returned as it is.
C3_NonEmptyUnparseableDateDropped ==
    ReturnedDecoded =>
      \A p \in RecordPairs :
        /\ (DateBearing(p[1]) = "date" /\ Unparseable(p[1].date))
             => p[2].date = (IF p[1].date.val = "" THEN Str("") ELSE Undefined)
        /\ (DateBearing(p[1]) = "dueDate" /\ Unparseable(p[1].dueDate))
             => p[2].dueDate = (IF p[1].dueDate.val = "" THEN Str("") ELSE Undefined)

\* C3 witness: a calendar action with date "tomorrow" and, in a list, a task with
\* dueDate "tomorrow" were returned with the field undefined.
C3_Witness ==
    /\ ReturnedDecoded
    /\ \E p \in RecordPairs :
         /\ DateBearing(p[1]) = "dueDate"
         /\ p[1].dueDate = Str("tomorrow")
         /\ p[2].dueDate = Undefined
         /\ p[1] # Decoded

\* Responses from which no JSON can be decoded.
UndecodableTexts ==
    { "I am sorry, I cannot help with that." }
      \cup { Wrap(w, Stringify(v)) : w \in { "trailingBrace", "twoObjects" },
                                     v \in WrappedDocs }

\* Responses that carry a JSON object with neither action nor actions.
LackingTexts ==
    LET lacking == { EmptyObject, [EmptyObject EXCEPT !.title = Str("Standup")] }
    IN  { Stringify(v) : v \in lacking }
          \cup { Wrap(w, Stringify(EmptyObject)) :
                   w \in { "fencedJson", "fenced", "leadingProse", "trailingProse" } }

\* The generation call threw, gave an empty response, gave text that does not
\* decode, or gave JSON without action and actions.
GenerationFailed ==
    \/ genResult.kind \in { "throws", "undefined" }
    \/ genResult.kind = "text"
         /\ genResult.text \in ({ "" } \cup UndecodableTexts \cup LackingTexts)

\* C4: with the credential configured, whenever the generation call throws, gives
\* an empty response, text that does not decode or JSON lacking action and actions,
\* analyzeText returns the fallback record of the command text and does not throw.
C4_FailureGivesFallback ==
    /\ (~KeyBlank) => (pc # "threw" /\ thrown = "")
    /\ (genResult # NoOutcome /\ GenerationFailed)
         => /\ pc \in { "validating", "returned" }
            /\ pc = "returned" =>
                 /\ caught # ""
                 /\ ret = FallbackRecord(text)
                 /\ \E k \in ActionKinds : ret.action = Str(k)
                 /\ ret.title.type = "string"
                 /\ Len(ret.title.val) = (IF Len(text) < 50 THEN Len(text) ELSE 50)
                 /\ ret.title.val = SubSeq(text, 1, Len(ret.title.val))
                 /\ ret.description = Str("AI parsing failed. Please refine the input.")
                 /\ ret.actions = Undefined /\ ret.date = Undefined

\* C4 witness: the four outcomes were met and answered by the fallback.
C4_Witness ==
    /\ pc = "returned"
    /\ genResult.kind = "text"
    /\ genResult.text \in LackingTexts
    /\ ret.description = Str(FallbackDescription)

\* C5 (as claimed): every record analyzeText returns has an action of the closed
\* set or a non-empty actions list.
C5_ReturnedActionRecognized ==
    pc = "returned" =>
      \/ \E k \in ActionKinds : ret.action = Str(k)
      \/ ret.actions.type = "array" /\ Len(ret.actions.val) > 0

\* C6 (as claimed): a returned envelope with actions present has no top-level
\* action, and the action of every element of actions is of the closed set.
C6_EnvelopeWellFormed ==
    (pc = "returned" /\ ret.actions # Undefined) =>
      /\ ret.action = Undefined
      /\ ret.actions.type = "array"
      /\ \A i \in 1..Len(ret.actions.val) :
           \E k \in ActionKinds : ret.actions.val[i].action = Str(k)

\* C10: with the credential missing or blank no generation call is ever made, and
\* the request ends by throwing the configuration error: nothing is returned and the
\* catch of the fallback is not entered.
C10_MissingKeyIsFatal ==
    KeyBlank =>
      /\ genCalls = 0
      /\ pc \in { "start", "threw" }
      /\ ret = Undefined /\ caught = ""
      /\ pc = "threw" => thrown = "GEMINI_API_KEY is not set in .env file."

\* C10 witness: a request with a blank key threw.
C10_Witness == pc = "threw" /\ apiKey = Str("   ") /\ genCalls = 0

(*************************** claims on FallbackSpec *************************)

\* The texts generated from a word list that holds a word of the given set.
TextsWith(words) ==
    { Sentence(ws) : ws \in { l \in WordLists : \E i \in 1..Len(l) : l[i] \in words } }

\* C7: the fallback classifies by the first matching keyword set in the order
\* calendar, task, email: a text with a calendar keyword is calendar whatever else
\* it holds, one with a task keyword and no calendar keyword is task, one with only
\* an email keyword is email, and one with no keyword is unknown.
C7_FallbackPriority ==
    (pc = "returned" /\ caught # "") =>
      /\ text \in TextsWith(CalendarWords) => ret.action = Str("calendar")
      /\ text \in TextsWith(TaskWords) \ TextsWith(CalendarWords)
           => ret.action = Str("task")
      /\ text \in TextsWith(EmailWords) \ TextsWith(CalendarWords \cup TaskWords)
           => ret.action = Str("email")
      /\ text \in TextsWith(OtherWords) \ TextsWith(Words \ OtherWords)
           => ret.action = Str("unknown")
      /\ text = "Schedule a task reminder" => ret.action = Str("calendar")
      /\ text = LongText => ret.action = Str("unknown")

\* C7 witness: texts holding a task keyword before a calendar keyword, and a task
\* keyword before an email keyword, were classified.
C7_Witness ==
    /\ pc = "returned"
    /\ text = "TASK schedule"
    /\ ret.action = Str("calendar")

(***************************** claims on MailSpec **************************)

\* The sign-off block sendEmail writes before the sender name.
SignOff == "\n\nBest regards,\n"

\* The closing phrases the specification recognizes.
ClosingPhrases ==
    { "best regards,", "regards,", "sincerely,", "thanks,", "thank you,", "cheers,",
      "warm regards,", "kind regards," }

\* The text of the transmitted body before its last Len(SignOff) + Len(name) characters.
BeforeBlock(body, name) == SubSeq(body, 1, Len(body) - Len(SignOff) - Len(name))

\* C8: the body sendEmail transmits ends with two newlines, "Best regards,", a
\* newline and the resolved sender name; no closing phrase, in any letter case,
\* stands before that block, so the body holds one sign-off block; and the name of
\* the block is the profile's, not the one the given body was signed with.
C8_OneEnforcedSignature ==
    sent # NoMessage =>
      LET name   == senderName.val
          before == BeforeBlock(sent.body, name)
      IN  /\ senderName.type = "string"
          /\ Len(sent.body) >= Len(SignOff) + Len(name)
          /\ sent.body = before \o SignOff \o name
          /\ \A phrase \in ClosingPhrases : ~Includes(ToLowerCase(before), phrase)
          /\ Occurrences(sent.body, SignOff) = { Len(before) + 1 }
          /\ name = (IF profile.name = Undefined \/ profile.name \in { Str(""), Str("  ") }
                       THEN CHOOSE local \in { SubSeq(profile.email, 1, n) :
                                                  n \in 0..Len(profile.email) } :
                              /\ ~Includes(local, "@")
                              /\ profile.email \in { local, local \o "@example.com" }
                       ELSE profile.name.val)
          /\ (mailData.body = Str("Let's sync next week.\n\nBest regards,\nAI Assistant")
                /\ name = "Priya Shah")
               => sent.body = "Let's sync next week.\n\nBest regards,\nPriya Shah"

\* C8 witness: the body signed "AI Assistant" was sent signed "Priya Shah".
C8_Witness ==
    /\ mailPc = "returned"
    /\ mailData.body = Str("Let's sync next week.\n\nBest regards,\nAI Assistant")
    /\ senderName = Str("Priya Shah")
    /\ sent.body = "Let's sync next week.\n\nBest regards,\nPriya Shah"

\* The signature enforcement of sendEmail, lines 88 and 92.
Enforce(body, name) == appendSignature(removeAISignature(body), name)

\* C9: enforcing the signature on a body that sendEmail has enforced it on, with
\* the same sender name, gives that body again.
C9_EnforceIdempotent ==
    sent # NoMessage =>
      /\ sent.body = Enforce(mailData.body.val, senderName.val)
      /\ Enforce(sent.body, senderName.val) = sent.body

\* C9 witness: a body with a closing phrase in its text was enforced, and the
\* result differs from the body given.
C9_Witness ==
    /\ mailPc = "sending"
    /\ mailData.body = Str("Hi Raj,\nThanks, that works. See you Monday.\n\nSincerely,\n[Your Name]")
    /\ sent.body = "Hi Raj,\n\nBest regards,\n" \o senderName.val
    /\ senderName = Str("raj.k")

(******************* further claims on AnalyzeSpec: the anchor *************)

\* C11 (as claimed): every clock reading validateAndFixDate makes in a request
\* falls on the local year, month and day of the anchor the prompt was built from.
C11_AnchorReadOnce ==
    \A i \in 1..Len(dateReads) :
      LET c == CivilFromDays(LocalDay(dateReads[i], tz))
      IN  /\ c.y = anchor.currentYear
          /\ c.m = anchor.currentMonth
          /\ c.d = anchor.currentDay

(**************************** claims on ServiceSpec ************************)

\* A field that is missing or empty.
Missing(v) == v \in { Undefined, Str("") }

\* The record createTask was called with is not of kind task or has no title.
BadTaskRecord == taskData.action # Str("task") \/ Missing(taskData.title)

\* The record sendEmail was called with is not of kind email or lacks a recipient,
\* a subject or a body.
BadMailRecord ==
    \/ mailData.action # Str("email")
    \/ Missing(mailData.recipient)
    \/ Missing(mailData.subject)
    \/ Missing(mailData.body)

\* C12: createTask called with a record that is not a task or has no title, and
\* sendEmail called with a record that is not an email or lacks recipient, subject
\* or body, make no external call and end by throwing a validation error.
C12_ValidationBeforeCalls ==
    /\ (taskPc # "idle" /\ BadTaskRecord) =>
         /\ taskCalls = <<>>
         /\ taskPc \in { "start", "threw" }
         /\ taskPc = "threw" =>
              taskThrown \in { "Invalid action type for tasks service",
                               "Task title is required" }
    /\ (mailPc # "idle" /\ BadMailRecord) =>
         /\ extCalls = <<>>
         /\ sent = NoMessage
         /\ mailPc \in { "start", "threw" }
         /\ mailPc = "threw" =>
              mailThrown \in { "Invalid action type for Gmail service",
                               "Email recipient is required", "Email subject is required",
                               "Email body is required" }

\* C12 witness: createTask called with an empty title threw without any call.
C12_Witness ==
    /\ taskPc = "threw"
    /\ taskData.action = Str("task")
    /\ taskData.title = Str("")
    /\ taskCalls = <<>>

\* How often a call occurs in a sequence of calls.
TimesCalled(calls, c) == Cardinality({ i \in 1..Len(calls) : calls[i] = c })

\* No external call of a dispatch is made twice.
NoCallRepeated ==
    /\ \A i \in 1..Len(taskCalls) : TimesCalled(taskCalls, taskCalls[i]) = 1
    /\ \A i \in 1..Len(extCalls) : TimesCalled(extCalls, extCalls[i]) = 1

\* sendEmail ended on the failure of its latest external call.
MailCallFailed ==
    /\ extCalls # <<>>
    /\ mailThrown = extCalls[Len(extCalls)] \o " failed"

\* C13 (as claimed): when an external call of createTask or sendEmail fails, the
\* dispatch throws, the failed call is the last call made and no call is repeated.
C13_FailureSurfaces ==
    /\ NoCallRepeated
    /\ taskFailed # {} =>
         /\ taskPc = "threw"
         /\ taskFailed = { taskCalls[Len(taskCalls)] }
    /\ mailThrown \in { c \o " failed" :
                          c \in { "getAuthenticatedClient", "getUserProfile",
                                  "gmail.users.messages.send" } } =>
         /\ mailPc = "threw"
         /\ MailCallFailed

\* C13 (amended): as claimed for the auth-client lookup and the insert of
\* createTask and for the three calls of sendEmail; a failure of the task-list
\* lookup is absorbed: createTask goes on with the list "@default" and calls the
\* insert.
C13_FailureSurfacesButListLookup ==
    /\ NoCallRepeated
    /\ (taskFailed \ { "tasks.tasklists.list" }) # {} =>
         /\ taskPc = "threw"
         /\ taskFailed \ { "tasks.tasklists.list" } = { taskCalls[Len(taskCalls)] }
         /\ taskThrown = taskCalls[Len(taskCalls)] \o " failed"
    /\ "tasks.tasklists.list" \in taskFailed =>
         /\ taskListId = "@default"
         /\ taskCalls =
              << "getAuthenticatedClient", "tasks.tasklists.list", "tasks.tasks.insert" >>
         /\ task.title = taskData.title
    /\ mailThrown \in { c \o " failed" :
                          c \in { "getAuthenticatedClient", "getUserProfile",
                                  "gmail.users.messages.send" } } =>
         /\ mailPc = "threw"
         /\ MailCallFailed

\* C13 witness: the task-list lookup failed and the task was inserted into the
\* default list.
C13_Witness ==
    /\ taskPc = "returned"
    /\ taskFailed = { "tasks.tasklists.list" }
    /\ taskListId = "@default"
    /\ taskCalls[Len(taskCalls)] = "tasks.tasks.insert"

(**************************** claims on DispatchSpec ***********************)

\* The messages of the validation errors of the two services.
ValidationMessages ==
    { "Invalid action type for tasks service", "Task title is required",
      "Invalid action type for Gmail service", "Email recipient is required",
      "Email subject is required", "Email body is required" }

\* An action that fails the validation of its service.
BadAction(rec) ==
    IF rec.action = Str("task") THEN Missing(rec.title)
    ELSE Missing(rec.recipient) \/ Missing(rec.subject) \/ Missing(rec.body)

\* C14: the actions of an envelope are dispatched one at a time in their order and
\* one result is collected per action; the result of an action that fails the
\* validation is a validation error and that of any other action is a success or
\* the failure of one of its own external calls, whatever happened to the actions
\* before it; at the end there are as many results as actions.  The envelope
\* [task "Buy milk", email with empty recipient] reports the email as a validation
\* error and leaves the reported outcome of the task as it was.
C14_IndependentResults ==
    /\ dPc # "idle" =>
         /\ Len(results) = dIdx - 1
         /\ dIdx <= Len(envelope) + 1
         /\ dPc = "done" => Len(results) = Len(envelope)
         /\ dPc = "awaiting" => (taskPc = "idle") # (mailPc = "idle")
         /\ dPc = "next" => (taskPc = "idle" /\ mailPc = "idle")
         /\ \A i \in 1..Len(results) :
              /\ results[i].action = envelope[i].action.val
              /\ BadAction(envelope[i]) =>
                   (~results[i].success /\ results[i].message \in ValidationMessages)
              /\ ~BadAction(envelope[i]) =>
                   \/ results[i].success /\ results[i].message = ""
                   \/ ~results[i].success /\ results[i].message \notin ValidationMessages
                        /\ results[i].message # ""
    /\ (dPc = "done" /\ Len(envelope) = 2
          /\ envelope[1] = TaskDoc(Undefined)
          /\ envelope[2] = MailDoc(Str(""), Undefined, Undefined)) =>
         /\ results[2] = [action |-> "email", success |-> FALSE,
                          message |-> "Email recipient is required"]
         /\ results[1].success = (taskPc = "idle" /\ taskThrown = "")

\* C14 witness: the task "Buy milk" succeeded and the email with the empty
\* recipient after it was reported as a validation error.
C14_Witness ==
    /\ dPc = "done"
    /\ envelope = << TaskDoc(Undefined), MailDoc(Str(""), Undefined, Undefined) >>
    /\ results = << [action |-> "task", success |-> TRUE, message |-> ""],
                    [action |-> "email", success |-> FALSE,
                     message |-> "Email recipient is required"] >>

(******************* further claims on AnalyzeSpec: the recovery ***********)

\* The wrappings the recovery is claimed to undo.
RecoveredWrappers == { "fencedJson", "fenced", "leadingProse" }

\* C15: from a response that wraps one JSON object in code fences, with or without
\* the json tag, or that has prose before the "{", the object is decoded: it is the
\* record the date validation starts from, and when it has an action it is returned
\* without the catch being entered.  A response that is plain text ends in the
\* catch: the fallback record is returned and nothing is thrown.
C15_RecoversWrappedJson ==
    /\ \A w \in RecoveredWrappers, v \in WrappedDocs :
         (genResult.kind = "text" /\ genResult.text = WrappedText(w, v)) =>
           /\ pc \in { "validating", "returned" }
           /\ thrown = ""
           /\ caught \notin { "JSON parse failed", "Empty response from Gemini",
                              "TypeError" }
           /\ (pc = "validating" /\ idx = 0) => parsed = v
           /\ (pc = "returned" /\ v.action # Undefined) =>
                /\ caught = ""
                /\ ret.action = v.action
                /\ ret.title = v.title
    /\ genResult = [kind |-> "text", text |-> "I am sorry, I cannot help with that."] =>
         /\ pc = "returned"
         /\ thrown = ""
         /\ caught = "JSON parse failed"
         /\ ret.description = Str("AI parsing failed. Please refine the input.")

\* C15 witness: a calendar record given after a line of prose was decoded and
\* returned.
C15_Witness ==
    /\ pc = "returned"
    /\ caught = ""
    /\ genResult.text = "Here is the JSON you asked for:\n" \o Stringify(CalendarDoc(Str("2024-01-05")))
    /\ ret.action = Str("calendar")
    /\ ret.title = Str("Standup")

(***************************** claims on RouteSpec *************************)

\* The request passed the test of its text.
Accepted == IsString(reqBody) /\ \E i \in 1..Len(reqBody.val) : Char(reqBody.val, i) # " "

\* C16: in a request the handler calls analyzeText once when the text is accepted
\* and never otherwise, and analyzeText calls the generation backend at most once,
\* whether the call succeeds, gives unusable text or throws: once the call was made
\* it is made exactly once until the response is sent.
C16_NoRetry ==
    /\ genCalls <= 1
    /\ analyzeCalls <= 1
    /\ routePc \in { "awaiting", "responded" } =>
         analyzeCalls = (IF Accepted THEN 1 ELSE 0)
    /\ pc \in { "generating", "validating", "returned" } => genCalls = 1
    /\ (routePc = "responded" /\ response.status = 200) => genCalls = 1
    /\ (routePc = "responded" /\ response.status \in { 400, 500 }) => genCalls = 0

\* C16 witness: the generation call threw, the fallback record was sent with 200,
\* and one generation call was made.
C16_Witness ==
    /\ routePc = "responded"
    /\ response.status = 200
    /\ genResult.kind = "throws"
    /\ caught # ""
    /\ genCalls = 1
    /\ analyzeCalls = 1

(****************************** claims on ApiSpec ***************************)

\* s begins with k.
StartsWith(s, k) == Len(s) >= Len(k) /\ SubSeq(s, 1, Len(k)) = k

\* The response names a JSON content type.
NamesJson(res) ==
    /\ res.contentType.type = "string"
    /\ Includes(res.contentType.val, "application/json")

NamesHtml(res) ==
    /\ res.contentType.type = "string"
    /\ Includes(res.contentType.val, "text/html")

\* C17: parseJsonResponse tests the Content-Type header before it reads the body
\* as JSON.  For a response whose content type is absent or does not include
\* application/json it throws, with the message that begins 'Backend returned HTML
\* instead of JSON' when the type includes text/html and the message that begins
\* 'Unexpected content type' otherwise, and it makes no JSON read of the body.
\* processText, getGoogleAuthUrl, checkGoogleConnection and checkBackendHealth
\* read the body of a response only through parseJsonResponse: no body is read
\* before fetch resolved, and a resolved response is handed to it exactly once.
C17_ContentTypeBeforeJson ==
    /\ apiResp = NoFetch => parses = <<>>
    /\ apiResp # NoFetch =>
         /\ Len(parses) = 1
         /\ ~NamesJson(apiResp) =>
              /\ parses[1].kind = "threw"
              /\ \A i \in 1..Len(parses[1].reads) : parses[1].reads[i] # "json"
              /\ IF NamesHtml(apiResp)
                   THEN StartsWith(parses[1].message,
                                   "Backend returned HTML instead of JSON")
                   ELSE StartsWith(parses[1].message, "Unexpected content type")
              /\ apiOut.kind = "threw"

\* A 200 response without a Content-Type header whose body is JSON text: the
\* body is not read and processText rejects with the content-type error.
C17_Witness ==
    /\ apiFn = "processText"
    /\ apiPc = "settled"
    /\ apiResp.ok
    /\ apiResp.contentType = Undefined
    /\ ApiJsonParse(apiResp.body).ok
    /\ parses[1].reads = <<>>
    /\ apiOut.kind = "threw"
    /\ StartsWith(apiOut.message, "Unexpected content type: unknown.")

(************************ claims on TaskSpec: the due date *****************)

\* The last second of the local day of the instant now, as toISOString prints it.
EndOfCurrentDay(now, zone) ==
    ToISOString(((now + zone) \div 1440) * 1440 + 1439 - zone)

\* A dueDate that is a non-empty string, is neither of the two relative words and
\* is not a date the Date constructor accepts.
UnparseableDue(dueDate) ==
    /\ Truthy(dueDate)
    /\ Trim(ToLowerCase(dueDate.val)) \notin { "today", "tomorrow" }
    /\ ~ParseDate(dueDate.val, tz).valid

NonBlank(s) == \E i \in 1..Len(s) : SubSeq(s, i, i) \notin { " ", "\n", "\t" }

\* The part of an address before its first '@': the whole of an address
\* without one.
BeforeAt(email) ==
    CHOOSE local \in { SubSeq(email, 1, n) : n \in 0..Len(email) } :
        /\ ~Includes(local, "@")
        /\ local = email \/ SubSeq(email, Len(local) + 1, Len(local) + 1) = "@"

\* The name the profile alone determines.
ProfileName(p) ==
    IF p.name.type = "string" /\ NonBlank(IF p.name.type = "string" THEN p.name.val ELSE "")
      THEN p.name.val
      ELSE BeforeAt(p.email)

\* s ends with k.
EndsWith(s, k) == Len(s) >= Len(k) /\ SubSeq(s, Len(s) - Len(k) + 1, Len(s)) = k

\* C19: the name in the signature of the transmitted email depends on the profile
\* of the sender only, never on the record: it is the display name of the profile
\* when that is not blank, and otherwise the part of the profile's email address
\* before '@'.  Whatever body the record carries, sendEmail with the same profile
\* signs with the same name.
C19_NameFromProfileOnly ==
    sent # NoMessage =>
        /\ senderName = Str(ProfileName(profile))
        /\ EndsWith(sent.body, "\n\nBest regards,\n" \o ProfileName(profile))
        /\ \A other \in MailRecords :
             MailValidationError(other) = "" =>
                 EndsWith(appendSignature(removeAISignature(other.body.val),
                                          senderName.val),
                          "\n\nBest regards,\n" \o ProfileName(profile))

\* A body the model signed "AI Assistant" was sent for a profile without a
\* display name, signed with the local part of the profile's address.
C19_Witness ==
    /\ sent # NoMessage
    /\ profile = [name |-> Undefined, email |-> "raj.k@example.com"]
    /\ Includes(mailData.body.val, "AI Assistant")
    /\ senderName = Str("raj.k")
    /\ EndsWith(sent.body, "\n\nBest regards,\nraj.k")
    /\ ~Includes(sent.body, "AI Assistant")

(****************** further claims on DateSpec: the returned form **********)

\* s is of the form YYYY-MM-DD.
IsoForm(s) ==
    /\ Len(s) = 10
    /\ AllDigits(SubSeq(s, 1, 4))
    /\ SubSeq(s, 5, 5) = "-"
    /\ AllDigits(SubSeq(s, 6, 7))
    /\ SubSeq(s, 8, 8) = "-"
    /\ AllDigits(SubSeq(s, 9, 10))

\* C20 (as claimed): every value other than undefined that validateAndFixDate
\* returns for a parseable date string is of the form YYYY-MM-DD, whether or not
\* the year was corrected and whether or not the string had that form already.
C20_ReturnedDateNormalized ==
    (datePc = "returned" /\ DateParses /\ dateOut # Undefined)
      => (IsString(dateOut) /\ IsoForm(IF IsString(dateOut) THEN dateOut.val ELSE ""))

(********************* claims on MailSpec: the strip step ******************)

WhiteSpace == { " ", "\n", "\t", "\r" }

\* A recognized closing phrase stands at position i of body, in any letter case.
PhraseAt(body, i) ==
    \E phrase \in { "best regards,", "regards,", "sincerely,", "thanks,", "thank you,",
                    "cheers,", "warm regards,", "kind regards," } :
        /\ i + Len(phrase) - 1 <= Len(body)
        /\ ToLowerCase(SubSeq(body, i, i + Len(phrase) - 1)) = phrase

\* The text of body before its leftmost closing phrase: the whole body when it
\* has none.
BeforeFirstPhrase(body) ==
    IF \E i \in 1..Len(body) : PhraseAt(body, i)
      THEN SubSeq(body, 1,
                  (CHOOSE i \in 1..Len(body) :
                      PhraseAt(body, i) /\ \A j \in 1..(i - 1) : ~PhraseAt(body, j)) - 1)
      ELSE body

\* r is s without its trailing white space.
IsTrimEndOf(r, s) ==
    \E b \in 0..Len(s) :
        /\ r = SubSeq(s, 1, b)
        /\ \A k \in (b + 1)..Len(s) : SubSeq(s, k, k) \in WhiteSpace
        /\ b = 0 \/ SubSeq(s, b, b) \notin WhiteSpace

\* r is s without its leading and its trailing white space.
IsTrimOf(r, s) ==
    \E a \in 0..Len(s) : \E b \in a..Len(s) :
        /\ r = SubSeq(s, a + 1, b)
        /\ \A k \in 1..a : SubSeq(s, k, k) \in WhiteSpace
        /\ \A k \in (b + 1)..Len(s) : SubSeq(s, k, k) \in WhiteSpace
        /\ a = b \/ (SubSeq(s, a + 1, a + 1) \notin WhiteSpace
                       /\ SubSeq(s, b, b) \notin WhiteSpace)

\* What removeAISignature gave in this call: the sent body without the block
\* appendSignature put after it.
Stripped ==
    SubSeq(sent.body, 1, Len(sent.body) - Len("\n\nBest regards,\n") - Len(senderName.val))

\* C21 (as claimed): for a body with a recognized closing phrase removeAISignature
\* gives the text before the leftmost occurrence with only its trailing white space
\* removed, and a body without a phrase comes back character for character.
C21_StripKeepsLeadingSpace ==
    sent # NoMessage =>
        IF BeforeFirstPhrase(mailData.body.val) # mailData.body.val
          THEN IsTrimEndOf(Stripped, BeforeFirstPhrase(mailData.body.val))
          ELSE Stripped = mailData.body.val

\* C21 (amended): removeAISignature gives the text before the leftmost occurrence
\* of a recognized closing phrase, matched in any letter case, with its leading
\* and its trailing white space removed; a body without a phrase comes back whole,
\* also with its leading and trailing white space removed.
C21_StripTrimsBothEnds ==
    sent # NoMessage => IsTrimOf(Stripped, BeforeFirstPhrase(mailData.body.val))

\* A body with two closing phrases was cut at the first of them.
C21_Witness ==
    /\ sent # NoMessage
    /\ mailData.body
         = Str("Hi Raj,\nThanks, that works. See you Monday.\n\nSincerely,\n[Your Name]")
    /\ Stripped = "Hi Raj,"

(******************* further claims on FallbackSpec: the record ************)

\* C22: the fallback path does not throw, and the record it returns holds an action
\* among calendar, task, email and unknown, the first 50 characters of the command
\* text as title (the whole text when it is shorter), the fixed description, and
\* no date, recipient, body or actions.
C22_FallbackRecordShape ==
    /\ thrown = ""
    /\ pc # "threw"
    /\ (pc = "returned" /\ caught # "") =>
         /\ ret.action \in { Str(k) : k \in { "calendar", "task", "email", "unknown" } }
         /\ ret.title.type = "string"
         /\ Len(ret.title.val) = (IF Len(text) < 50 THEN Len(text) ELSE 50)
         /\ ret.title.val = SubSeq(text, 1, Len(ret.title.val))
         /\ ret.description = Str("AI parsing failed. Please refine the input.")
         /\ ret.actions = Undefined
         /\ ret.date = Undefined
         /\ ret.dueDate = Undefined
         /\ ret.recipient = Undefined
         /\ ret.subject = Undefined
         /\ ret.body = Undefined

\* The fallback record of a command text of more than 50 characters.
C22_Witness ==
    /\ pc = "returned"
    /\ caught # ""
    /\ Len(text) > 50
    /\ Len(ret.title.val) = 50
    /\ ret.description = Str("AI parsing failed. Please refine the input.")

(******************* further claims on AnalyzeSpec: the span ***************)

\* The response text of this request wraps the JSON text of v in wrapper w.
Wrapped(w, v) == genResult.kind = "text" /\ genResult.text = WrappedText(w, v)

\* The object v was decoded from the response: the date validation starts from it,
\* and when it has an action it is returned without the catch being entered.
RecoveredAs(v) ==
    /\ pc \in { "validating", "returned" }
    /\ caught # "JSON parse failed"
    /\ (pc = "validating" /\ idx = 0) => parsed = v
    /\ (pc = "returned" /\ v.action # Undefined) => (caught = "" /\ ret.action = v.action)

\* The span did not decode: the request ended in the fallback record.
NotRecovered ==
    /\ pc = "returned"
    /\ thrown = ""
    /\ caught = "JSON parse failed"
    /\ ret.description = Str("AI parsing failed. Please refine the input.")

\* C23 (as claimed): what is decoded is the span from the first "{" to the last "}"
\* of the cleaned text.  One JSON object with prose free of braces before or after
\* it is recovered; two JSON objects, a top-level array of objects, and prose with
\* a "}" after the object are not, and end in the fallback record.
C23_ArrayNotRecovered ==
    \A v \in WrappedDocs :
        /\ \A w \in { "leadingProse", "trailingProse" } : Wrapped(w, v) => RecoveredAs(v)
        /\ \A w \in { "twoObjects", "array", "arrayOfTwo", "trailingBrace" } :
             Wrapped(w, v) => NotRecovered

\* C23 (amended): what is decoded is the span from the first "{" to the last "}" of
\* the cleaned text.  One JSON object with prose free of braces before or after it
\* is recovered, and so is the one object of a top-level array that holds a single
\* object; two JSON objects, a top-level array of two or more objects, and prose
\* with a "}" after the object are not, and end in the fallback record.
C23_SpanFirstToLast ==
    \A v \in WrappedDocs :
        /\ \A w \in { "leadingProse", "trailingProse", "array" } :
             Wrapped(w, v) => RecoveredAs(v)
        /\ \A w \in { "twoObjects", "arrayOfTwo", "trailingBrace" } :
             Wrapped(w, v) => NotRecovered

\* Two JSON objects in one response ended in the fallback record.
C23_Witness ==
    /\ Wrapped("twoObjects", CalendarDoc(Str("2024-01-05")))
    /\ pc = "returned"
    /\ caught = "JSON parse failed"
    /\ ret = FallbackRecord(text)

(****************************** claims on SignSpec *************************)

\* C24 (as claimed): every email record with a non-empty body that analyzeText
\* returns ends with two newlines, "Best regards,", a newline and the name of the
\* acting identity, whatever the model wrote in the body.
C24_ReturnedBodySigned ==
    (pc = "returned" /\ caught = "" /\ ret.action = Str("email")
       /\ ret.body.type = "string" /\ ret.body # Str(""))
      => EndsWith(ret.body.val, "\n\nBest regards,\n" \o SignerOf(userName))

(********************** claims on TaskSpec: parseDate **********************)

\* 23:59:59, in the server's time zone, of the day written at the start of a date
\* string, as toISOString prints it.
EndOfWrittenDay(s, zone) ==
    ToISOString(DaysFromCivil(WrittenYear(s), WrittenMonth(s), WrittenDay(s)) * 1440
                  + 1439 - zone)

\* C25 (as claimed): parseDate resolves a supplied dueDate to the end of the
\* intended day: "today", in any letter case and with white space around it, gives
\* 23:59:59 of the current day, "tomorrow" 23:59:59 of the next day, a parseable
\* date D 23:59:59 of day D, and any other string 23:59:59 of the current day.
C25_DueIsEndOfIntendedDay ==
    (task # NoTask /\ Truthy(taskData.dueDate)) =>
        LET s    == taskData.dueDate.val
            word == Trim(ToLowerCase(s))
        IN  /\ Len(taskNow) = 1
            /\ task.due =
                 Str(IF word = "today" THEN EndOfCurrentDay(taskNow[1], tz)
                     ELSE IF word = "tomorrow" THEN EndOfCurrentDay(taskNow[1] + 1440, tz)
                     ELSE IF ParseDate(s, tz).valid THEN EndOfWrittenDay(s, tz)
                     ELSE EndOfCurrentDay(taskNow[1], tz))

(******************* further claims on ApiSpec: a body that is no JSON ******)

\* C26 (as claimed): for a response whose content type names JSON and whose body
\* is no JSON text, parseJsonResponse reads the body as JSON, reads it again as
\* text, and throws its own error, whose message begins 'Failed to parse JSON
\* response', not the error of the parser or of the body stream.
C26_DescriptiveParseError ==
    (apiResp # NoFetch /\ NamesJson(apiResp)
       /\ apiResp.body \notin { ApiStringify(v) : v \in ApiValues })
      => /\ Len(parses) = 1
         /\ parses[1].kind = "threw"
         /\ parses[1].reads = << "json", "text" >>
         /\ StartsWith(parses[1].message, "Failed to parse JSON response")

(****************** further claims on DateSpec: no past year ***************)

\* C27 (as claimed): the value the date validation of analyzeText stores in a
\* date-bearing field, the return value of validateAndFixDate, is undefined or a
\* date whose year is the current year, as the call read it, or a later one.
C27_NoPastYear ==
    (datePc = "returned" /\ DateParses /\ dateOut # Undefined)
      => WrittenYear(dateOut.val) >= GetFullYear(dateNow[1], tz)

(****************** further claims on AnalyzeSpec: the frame ***************)

\* The members of a record.
RecordFields ==
    { "type", "action", "actions", "title", "description", "date", "dueDate",
      "recipient", "subject", "body" }

\* after is before, but for the date of a calendar record and the dueDate of a
\* task record.
SameButDates(before, after) ==
    \A f \in RecordFields :
        \/ after[f] = before[f]
        \/ f = "date" /\ before.action = Str("calendar")
        \/ f = "dueDate" /\ before.action = Str("task")

\* C28: the date validation of analyzeText changes dates only.  The actions list
\* keeps its length and its order, a calendar action may differ from what was
\* decoded in its date and a task action in its dueDate, and every other member of
\* every record, the date of a record that is no calendar action and the dueDate
\* of one that is no task among them, is as it was decoded.
C28_ValidationChangesDatesOnly ==
    (pc = "validating" \/ ReturnedDecoded) =>
        LET before == Decoded
            after  == IF pc = "validating" THEN parsed ELSE ret
        IN  /\ after.actions.type = before.actions.type
            /\ IF before.actions.type = "array"
                 THEN /\ Len(after.actions.val) = Len(before.actions.val)
                      /\ \A i \in 1..Len(before.actions.val) :
                           SameButDates(before.actions.val[i], after.actions.val[i])
                      /\ \A f \in RecordFields \ { "actions" } :
                           \/ after[f] = before[f]
                           \/ f = "date" /\ before.action = Str("calendar")
                           \/ f = "dueDate" /\ before.action = Str("task")
                 ELSE SameButDates(before, after)

\* A list of a calendar action and an email action, both with a date of a past
\* year, was returned: the calendar date was corrected and the email's date kept.
C28_Witness ==
    /\ ReturnedDecoded
    /\ Decoded.actions = Arr(<< CalendarDoc(Str("2024-01-05")), EmailDoc >>)
    /\ Len(ret.actions.val) = 2
    /\ ret.actions.val[1].date # Str("2024-01-05")
    /\ ret.actions.val[1].title = Str("Standup")
    /\ ret.actions.val[2] = EmailDoc

\* ---------------------------------------------------------------------------
\* ChatPage.tsx: handleSend, the Chrome-extension callback, handleTextSubmit
\* ---------------------------------------------------------------------------

\* The words of line 395-399 that make a command one that needs Google.
GoogleWords ==
    {"meeting", "schedule", "calendar", "event", "task", "todo", "email", "send", "gmail",
     "mail"}

needsGoogle(t) == \E w \in GoogleWords : Includes(ToLowerCase(t), w)

\* response.message?.includes(k): undefined, hence falsy, without a message.
MessageIncludes(res, k) == IsString(res.message) /\ Includes(res.message.val, k)

hasValidAction(res) ==
    /\ Truthy(res.action)
    /\ ~StrictEq(res.action, "unknown")
    /\ ~MessageIncludes(res, "Could not determine")

hasValidResults(res) ==
    /\ res.results.type = "array"
    /\ Len(res.results.val) > 0
    /\ \E i \in 1..Len(res.results.val) :
          /\ res.results.val[i].success
          /\ res.results.val[i].action # "unknown"

isNotError(res) ==
    /\ ~MessageIncludes(res, "Gemini API Error")
    /\ ~MessageIncludes(res, "Failed to process")
    /\ ~MessageIncludes(res, "GEMINI_ERROR")
    /\ ~MessageIncludes(res, "Could not determine")

\* Line 486.
shouldSaveMessages(res) ==
    (res.success /\ hasValidAction(res)) \/ hasValidResults(res) \/ isNotError(res)

\* The state a render of ChatPage shows to the functions it defines.
RenderEnv ==
    [isProcessing |-> isProcessing, isGoogleConnected |-> isGoogleConnected,
     currentChatId |-> currentChatId]

\* The id createChat returns for the n-th chat.
ChatIdOf(n) == Str("chat" \o NumStr(n))

\* The two saveMessage calls of a submission: the user's text and the reply.
SavedPair(chatId, t) ==
    <<[chatId |-> chatId, sender |-> "user", text |-> Trim(t)],
      [chatId |-> chatId, sender |-> "assistant", text |-> ""]>>

(**************************** specification ChatSpec ************************)

\* How many texts a behaviour submits, over all entry points.
MaxSubmits == 3

\* What the prompt box holds when the user sends: the transcript, and the
\* edited text beside it.
PromptStates ==
    { [transcribedText |-> "", editedText |-> "hello"],
      [transcribedText |-> "add a task", editedText |-> "add a task"],
      [transcribedText |-> "helo", editedText |-> "hello"],
      [transcribedText |-> "hello", editedText |-> " "] }

\* The texts the Chrome extension hands to its callback.
ExtensionTexts == {" ", "hello", "send mail"}

ActionResult(ok, a) == [success |-> ok, action |-> a]

\* The responses processText resolves with, and its rejection.
ChatResponses ==
    { [success |-> TRUE, action |-> Str("task"), message |-> Str("Task created"),
       results |-> Undefined],
      [success |-> FALSE, action |-> Str("unknown"),
       message |-> Str("Could not determine action"), results |-> Undefined],
      [success |-> FALSE, action |-> Str("unknown"),
       message |-> Str("I did not understand that"), results |-> Undefined],
      [success |-> FALSE, action |-> Str("task"),
       message |-> Str("Google account not connected"), results |-> Undefined],
      [success |-> FALSE, action |-> Undefined,
       message |-> Str("Gemini API Error: quota"), results |-> Undefined],
      [success |-> TRUE, action |-> Undefined, message |-> Str("Processed 2 actions"),
       results |-> Arr(<<ActionResult(TRUE, "task"), ActionResult(FALSE, "email")>>)],
      [success |-> FALSE, action |-> Undefined,
       message |-> Str("Failed to process actions"),
       results |-> Arr(<<ActionResult(FALSE, "unknown")>>)] }

ChatOutcomes ==
    { [kind |-> "returned", value |-> r] : r \in ChatResponses }
        \cup { [kind |-> "threw", value |-> Undefined] }

ChatInit ==
    /\ clock = UtcTime(AnchorYear, 6, 10, 12, 0)
    /\ tz = 0
    /\ ticks = 0
    /\ DateIdle
    /\ AnalyzeIdle
    /\ MailIdle
    /\ TaskIdle
    /\ DispatchIdle
    /\ RouteIdle
    /\ ApiIdle
    /\ SignIdle
    /\ ChatIdle

ChatFrame ==
    UNCHANGED <<clock, tz, ticks, dateVars, analyzeVars, mailVars, taskVars, dispatchVars,
                routeVars, apiVars, signVars>>

\* Lines 387-464: handleTextSubmit of the render env, up to its request.  A
\* blank text or a render that shows isProcessing returns at line 388; the
\* signed-in user is always there.  A command that needs Google on a render
\* that shows no connection is answered on the page (402-450): a chat is
\* created when the render has none, both messages are saved, nothing is
\* sent.  Every other text is sent after setIsProcessing(true).
handleTextSubmit(t, env) ==
    /\ submits' = submits + 1
    /\ UNCHANGED <<isGoogleConnected, effectEnv, settled>>
    /\ IF Trim(t) = "" \/ env.isProcessing
         THEN UNCHANGED <<isProcessing, currentChatId, pending, chats, saved>>
         ELSE IF needsGoogle(t) /\ ~env.isGoogleConnected
                THEN /\ IF Truthy(env.currentChatId)
                          THEN /\ saved' = saved \o SavedPair(env.currentChatId, t)
                               /\ UNCHANGED <<currentChatId, chats>>
                          ELSE /\ chats' = chats + 1
                               /\ currentChatId' = ChatIdOf(chats + 1)
                               /\ saved' = saved \o SavedPair(ChatIdOf(chats + 1), t)
                     /\ UNCHANGED <<isProcessing, pending>>
                ELSE /\ isProcessing' = TRUE
                     /\ pending' = Append(pending, [text |-> t, chatId |-> env.currentChatId])
                     /\ UNCHANGED <<currentChatId, chats, saved>>

\* Lines 324-332 with the prompt box of part_003: the send button is disabled
\* while isProcessing (134-139), the Enter key is not (83-92); both call
\* handleSend, which submits the edited text when there is a transcript and
\* the empty transcript otherwise, to the handleTextSubmit of this render.
handleSend ==
    /\ submits < MaxSubmits
    /\ \E box \in PromptStates :
          LET textToSend ==
                  IF box.transcribedText # "" THEN box.editedText ELSE box.transcribedText
          IN  IF Trim(textToSend) # ""
                THEN handleTextSubmit(textToSend, RenderEnv)
                ELSE /\ submits' = submits + 1
                     /\ UNCHANGED <<isProcessing, isGoogleConnected, currentChatId, effectEnv,
                                    pending, chats, saved, settled>>
    /\ ChatFrame

\* Lines 233-238: the callback handed to initChromeExtension.  Its isProcessing
\* and its handleTextSubmit are those of the render in which the effect ran.
ExtensionSends ==
    /\ submits < MaxSubmits
    /\ \E t \in ExtensionTexts :
          IF Trim(t) # "" /\ ~effectEnv.isProcessing
            THEN handleTextSubmit(t, effectEnv)
            ELSE /\ submits' = submits + 1
                 /\ UNCHANGED <<isProcessing, isGoogleConnected, currentChatId, effectEnv,
                                pending, chats, saved, settled>>
    /\ ChatFrame

\* Lines 245: the effect runs again, on the render of the moment, only when
\* currentUser or navigate changes.
EffectRuns ==
    /\ effectEnv # RenderEnv
    /\ effectEnv' = RenderEnv
    /\ UNCHANGED <<isProcessing, isGoogleConnected, currentChatId, pending, submits, chats,
                   saved, settled>>
    /\ ChatFrame

\* Lines 186-199: checkGoogleConnection settles and sets isGoogleConnected.
GoogleChecked ==
    /\ \E connected \in BOOLEAN :
          /\ connected # isGoogleConnected
          /\ isGoogleConnected' = connected
    /\ UNCHANGED <<isProcessing, currentChatId, effectEnv, pending, submits, chats, saved,
                   settled>>
    /\ ChatFrame

RemoveAt(seq, i) == SubSeq(seq, 1, i - 1) \o SubSeq(seq, i + 1, Len(seq))

\* Lines 466-595: a request in flight settles.  A response that passes the
\* test of line 486 creates a chat when the submission had none and saves
\* both messages (527-556); any other response and a rejection save nothing
\* (557-560, 576-592); finally sets isProcessing to false (594).
RequestSettles ==
    /\ \E i \in 1..Len(pending), out \in ChatOutcomes :
          LET req == pending[i]
              saves == out.kind = "returned" /\ shouldSaveMessages(out.value)
              creates == saves /\ ~Truthy(req.chatId)
              chatId == IF creates THEN ChatIdOf(chats + 1) ELSE req.chatId
          IN  /\ pending' = RemoveAt(pending, i)
              /\ chats' = IF creates THEN chats + 1 ELSE chats
              /\ currentChatId' = IF creates THEN chatId ELSE currentChatId
              /\ saved' = IF saves THEN saved \o SavedPair(chatId, req.text) ELSE saved
              /\ settled' = [kind |-> out.kind, response |-> out.value, saved |-> saves,
                             created |-> creates]
    /\ isProcessing' = FALSE
    /\ UNCHANGED <<isGoogleConnected, effectEnv, submits>>
    /\ ChatFrame

ChatNext == handleSend \/ ExtensionSends \/ EffectRuns \/ GoogleChecked \/ RequestSettles

ChatSpec == ChatInit /\ [][ChatNext]_vars

(***************************** claims on ChatSpec **************************)

\* C29: at most one processText request is in flight at any time, whatever
\* entry point submitted the text and however submissions interleave with
\* pending requests.
C29_OneRequestInFlight == Len(pending) <= 1

\* C30: a request that settled made ChatPage create a chat or save messages
\* only if it returned a valid response: success with an action other than
\* 'unknown', or a results list with a successful action other than 'unknown'.
ValidResponse(res) ==
    \/ res.success /\ Truthy(res.action) /\ ~StrictEq(res.action, "unknown")
    \/ hasValidResults(res)

C30_SavesOnlyValidResponses ==
    (settled.kind # "none" /\ (settled.saved \/ settled.created))
        => (settled.kind = "returned" /\ ValidResponse(settled.response))

====
